---- MODULE Spec2Model ----
(***************************************************************************)
(* The session/request engine of the carwings client.                      *)
(*                                                                         *)
(* The repository holds two revisions of the library that the claims       *)
(* refer to:                                                               *)
(*   "part_003"    src/unnamed/part_003: Session{Region, Filename},        *)
(*                 Session.Connect(username, password), re-login through   *)
(*                 Session.Login;                                          *)
(*   "carwings.go" src/carwings.go: Connect(cfg Config), re-login through  *)
(*                 Session.connect.                                        *)
(* The variable rev fixes, for a whole behaviour, which revision runs.     *)
(* Definitions ending in Cfg model src/carwings.go, the others             *)
(* src/unnamed/part_003 (or code that is the same in both).                *)
(*                                                                         *)
(* One step of the model is one exchange with the backend (request sent,   *)
(* response received and classified) together with the local code that     *)
(* runs up to the next exchange.  The backend and the file system are the  *)
(* environment: every response and every file outcome is chosen with \E.   *)
(***************************************************************************)
EXTENDS Integers, Sequences, FiniteSets, TLC

VARIABLES
    rev,     \* which revision of the library runs
    s,       \* the Session object (record of its fields)
    file,    \* content of the session file on disk
    pc,      \* position of the single logical flow that owns the Session
    cur,     \* endpoint and caller parameters of the Session.apiRequest in progress
    sent,    \* requests sent since the current call (Connect or operation) began
    result,  \* error value returned by the last call that returned
    last,    \* the response a single classification or login is applied to
    loginResp, \* the payload of the login response a single Login reads (SpecLogin)
    w,       \* the poll loop waitForResult and its clock (SpecPoll)
    arg,     \* the input one function is called with (SpecFn)
    ret,     \* what that function returned (SpecFn)
    srv      \* the server mode: handlers, goroutines, update loop (SpecServer)

vars == <<rev, s, file, pc, cur, sent, result, last, loginResp, w, arg, ret, srv>>

\* The variables the flows of Connect and Session.apiRequest never touch.
aside == <<last, loginResp, w, arg, ret, srv>>

-----------------------------------------------------------------------------
(* Values *)

Revs == {"part_003", "carwings.go"}

Regions == {"NNA"}

\* The session-file flag of the command line, or "" for none.
Filenames == {"", "~/.carwings-session"}

VINs == {"", "v1"}

\* Session tokens the backend issues; "" is the token of a record without one.
IssuedTokens == {"s1", "s2"}

Tokens == {""} \cup IssuedTokens

\* Names time.LoadLocation resolves, and one it does not.
KnownZones == {"", "UTC", "Europe/London", "Asia/Tokyo"}

BackendZones == {"Europe/London", "Bogus/Zone"}

ConfigZones == {"", "Asia/Tokyo"}

UserName == "user"

PlainPassword == "secret"

\* baseprm values of InitialApp: a usable Blowfish key and one NewCipher rejects.
GoodKey == "key"

BadKey == ""

-----------------------------------------------------------------------------
(* Error values *)

Err(kind, code, msg) == [kind |-> kind, code |-> code, msg |-> msg]

Nil == Err("nil", 0, "")

ErrNotLoggedIn == Err("ErrNotLoggedIn", 0, "")

ErrVehicleInfoUnavailable == Err("ErrVehicleInfoUnavailable", 0, "")

\* fmt.Errorf("received status code %d (%s)", s, e) / ("received status code %d", s)
StatusError(code, msg) == Err("status", code, msg)

\* the error of http.PostForm / Client.Do
TransportError == Err("transport", 0, "")

\* the error of json.Decoder.Decode
DecodeError == Err("decode", 0, "")

\* blowfish.KeySizeError
KeySizeError == Err("keysize", 0, "")

\* the error of os.Open / os.OpenFile / Write / Encode
FileError == Err("file", 0, "")

\* a run-time panic (index out of range, nil dereference): the process dies
Panic == Err("panic", 0, "")

\* no call has returned yet
NoResult == Err("none", 0, "")

-----------------------------------------------------------------------------
(* Transport/Envelope layer *)

Numerals == {"200", "401", "408", "500"}

\* The raw JSON of the "status" member: a number, a quoted string, null, or
\* no member at all (the RawMessage stays empty).
RawStatuses ==
    {[form |-> "number", text |-> t] : t \in Numerals}
    \cup {[form |-> "string", text |-> t] : t \in Numerals \cup {"", "abc"}}
    \cup {[form |-> "null", text |-> "null"], [form |-> "absent", text |-> ""]}

Messages == {"", "msg"}

\* no exchange yet
NoResponse == [kind |-> "none", status |-> [form |-> "absent", text |-> ""], message |-> ""]

\* What one exchange can bring back: a transport failure, a body that does
\* not decode into the target, or a decoded envelope.
Responses ==
    {[kind |-> "transport", status |-> [form |-> "absent", text |-> ""], message |-> ""],
     [kind |-> "badjson", status |-> [form |-> "absent", text |-> ""], message |-> ""]}
    \cup {[kind |-> "json", status |-> st, message |-> m] : st \in RawStatuses, m \in Messages}

\* strconv.Atoi with its error dropped: the value of a decimal numeral, else 0.
Atoi(text) ==
    CASE text = "200" -> 200
      [] text = "401" -> 401
      [] text = "404" -> 404
      [] text = "408" -> 408
      [] text = "500" -> 500
      [] text = "503" -> 503
      [] OTHER -> 0

\* baseResponse.Status indexes s[0]: it panics on an empty RawMessage.
StatusPanics(raw) == raw.form = "absent"

\* baseResponse.Status: strip the quotes of a string, then Atoi.  The quotes
\* are the form "string" here, so text is what is left after stripping.
Status(raw) == Atoi(raw.text)

ErrorMessage(resp) == resp.message

\* Wrong classification used to test the claims: 408 is a generic error.
apiRequest_no408(resp) ==
    CASE resp.kind = "transport" -> TransportError
      [] resp.kind = "badjson" -> DecodeError
      [] StatusPanics(resp.status) -> Panic
      [] Status(resp.status) = 200 -> Nil
      [] Status(resp.status) = 401 -> ErrNotLoggedIn
      [] OTHER -> StatusError(Status(resp.status), ErrorMessage(resp))

\* apiRequest of part_003: the error it returns for a response.
apiRequest(resp) ==
    CASE resp.kind = "transport" -> TransportError
      [] resp.kind = "badjson" -> DecodeError
      [] StatusPanics(resp.status) -> Panic
      [] Status(resp.status) = 200 -> Nil
      [] Status(resp.status) \in {401, 408} -> ErrNotLoggedIn
      [] OTHER -> StatusError(Status(resp.status), ErrorMessage(resp))

\* apiRequest of carwings.go: only http.StatusUnauthorized is ErrNotLoggedIn.
apiRequestCfg(resp) ==
    CASE resp.kind = "transport" -> TransportError
      [] resp.kind = "badjson" -> DecodeError
      [] StatusPanics(resp.status) -> Panic
      [] Status(resp.status) = 200 -> Nil
      [] Status(resp.status) = 401 -> ErrNotLoggedIn
      [] OTHER -> StatusError(Status(resp.status), ErrorMessage(resp))

\* The package-level apiRequest of the revision that runs.
Classify(r, resp) == IF r = "part_003" THEN apiRequest(resp) ELSE apiRequestCfg(resp)

-----------------------------------------------------------------------------
(* Crypto helper, time zones, request parameters *)

NoCipher == [alg |-> "none", key |-> "", plain |-> ""]

\* blowfish.NewCipher rejects the key (KeySizeError).
encryptFails(key) == key = BadKey

\* encrypt: the Blowfish/ECB ciphertext of the padded password under key,
\* kept symbolic (it is determined by the key and the plaintext).
encrypt(plain, key) == [alg |-> "blowfish-ecb", key |-> key, plain |-> plain]

\* time.LoadLocation: "" and "UTC" give UTC, a known name its zone, anything
\* else an error.
LoadLocationFails(name) == name \notin KnownZones

LoadLocation(name) == IF name = "" THEN "UTC" ELSE name

\* The "~" expansion of load and save, which part_003 stores back in s.Filename.
ExpandHome(name) == IF name = "~/.carwings-session" THEN "/home/u/.carwings-session" ELSE name

CommonKeys == {"RegionCode", "VIN", "custom_sessionid", "tz"}

\* nil parameters
NoParams == [k \in {} |-> ""]

\* The calls of Session.apiRequest a public operation makes: UpdateStatus
\* (nil parameters), CheckUpdate (a result key), and a call whose map already
\* holds the common names.
Calls ==
    {[ep |-> "BatteryStatusCheckRequest.php", params |-> NoParams],
     [ep |-> "BatteryStatusCheckResultRequest.php", params |-> [k \in {"resultKey"} |-> "key1"]],
     [ep |-> "BatteryStatusCheckResultRequest.php",
      params |-> [k \in {"resultKey"} \cup CommonKeys |->
                    IF k = "resultKey" THEN "key1" ELSE "caller"]]}

\* Faulty variant: a value the caller supplied is kept.
setCommonParams_keep(sess, params) ==
    [k \in (DOMAIN params) \cup CommonKeys |->
        IF k \in DOMAIN params THEN params[k]
        ELSE CASE k = "RegionCode" -> sess.Region
               [] k = "VIN" -> sess.VIN
               [] k = "custom_sessionid" -> sess.customSessionID
               [] OTHER -> sess.tz]

\* Session.setCommonParams (the same code in both revisions; carwings.go reads
\* the region from s.config.Region, held in the field Region here).
setCommonParams(sess, params) ==
    [k \in (DOMAIN params) \cup CommonKeys |->
        CASE k = "RegionCode" -> sess.Region
          [] k = "VIN" -> sess.VIN
          [] k = "custom_sessionid" -> sess.customSessionID
          [] k = "tz" -> sess.tz
          [] OTHER -> params[k]]

\* One entry of the request log: endpoint, form parameters, the error the
\* package-level apiRequest returned for the exchange and, for a login that
\* Login accepted, the vehicle info it took from the response and how the
\* write of the session file that followed ended ("none": no write was made).
Sent(ep, params, out) ==
    [ep |-> ep, params |-> params, out |-> out, vin |-> "", sid |-> "", save |-> "none"]

SentLogin(params, out, vi, saved) ==
    [ep |-> "UserLoginRequest.php", params |-> params, out |-> out,
     vin |-> vi.vin, sid |-> vi.sid, save |-> saved]

-----------------------------------------------------------------------------
(* Persistence *)

NoFile == [kind |-> "missing", vin |-> "", sid |-> "", tz |-> ""]

GarbageFile == [kind |-> "garbage", vin |-> "", sid |-> "", tz |-> ""]

FileRecord(vin, sid, tz) == [kind |-> "rec", vin |-> vin, sid |-> sid, tz |-> tz]

\* How a write of the session file can end: written, OpenFile fails,
\* Encode/Write fails, Close fails.
SaveOutcomes == {"ok", "open", "write", "close"}

\* Faulty variant: the file is never found.
load_missing(sess, f) ==
    [s |-> [sess EXCEPT !.Filename = ExpandHome(sess.Filename)], err |-> FileError]

\* Session.load of part_003.  Returns the session and the error.
load(sess, f) ==
    LET s1 == [sess EXCEPT !.Filename = ExpandHome(sess.Filename)] IN
    CASE f.kind = "missing" -> [s |-> s1, err |-> FileError]
      [] f.kind = "garbage" -> [s |-> s1, err |-> DecodeError]
      [] OTHER ->
            [s |-> [s1 EXCEPT !.VIN = f.vin,
                              !.customSessionID = f.sid,
                              !.tz = f.tz,
                              !.loc = IF LoadLocationFails(f.tz) THEN "UTC"
                                      ELSE LoadLocation(f.tz)],
             err |-> Nil]

\* Session.save of part_003.  Returns the session, the file and the error.
save(sess, f, outcome) ==
    LET s1 == [sess EXCEPT !.Filename = ExpandHome(sess.Filename)]
        rec == FileRecord(sess.VIN, sess.customSessionID, sess.tz) IN
    CASE outcome = "open" -> [s |-> s1, file |-> f, err |-> FileError]
      [] outcome = "write" -> [s |-> s1, file |-> NoFile, err |-> FileError]
      [] outcome = "close" -> [s |-> s1, file |-> rec, err |-> FileError]
      [] OTHER -> [s |-> s1, file |-> rec, err |-> Nil]

\* Session.Load of carwings.go (called with a non-empty file name).
LoadCfg(sess, f) ==
    CASE f.kind = "missing" -> [s |-> sess, err |-> FileError]
      [] f.kind = "garbage" -> [s |-> sess, err |-> DecodeError]
      [] OTHER ->
            [s |-> [sess EXCEPT !.customSessionID = f.sid,
                                !.VIN = f.vin,
                                !.tz = IF LoadLocationFails(sess.TimeZone) THEN "Local"
                                       ELSE sess.TimeZone,
                                !.loc = IF LoadLocationFails(sess.TimeZone) THEN "Local"
                                        ELSE LoadLocation(sess.TimeZone)],
             err |-> Nil]

\* Session.Save of carwings.go (value receiver: the session is not changed).
SaveCfg(sess, f, outcome) ==
    LET rec == FileRecord(sess.VIN, sess.customSessionID, sess.tz) IN
    CASE outcome = "open" -> [file |-> f, err |-> FileError]
      [] outcome = "write" -> [file |-> GarbageFile, err |-> FileError]
      [] outcome = "close" -> [file |-> rec, err |-> FileError]
      [] OTHER -> [file |-> rec, err |-> Nil]

-----------------------------------------------------------------------------
(* Login *)

VI(vin, sid) == [vin |-> vin, sid |-> sid]

\* The vehicle-info records one login response can hold, with the token tok
\* the response issues: an empty record, a VIN without a token, a VIN with one.
VIOptions(tok) == {VI("", ""), VI("v1", ""), VI("v1", tok)}

VILists(tok) == {<<>>} \cup {<<vi>> : vi \in VIOptions(tok)}

\* The payload of a status-200 login response: the four places that can hold
\* the vehicle info, and CustomerInfo.Timezone.
LoginBodies ==
    UNION {
        {[VehicleInfos |-> l1, VehicleInfoList |-> l2, CustomerInfoVI |-> c,
          VehicleInfo |-> v, Timezone |-> z] :
            l1 \in VILists(tok), l2 \in VILists(tok),
            c \in {VI("", ""), VI("v1", tok)}, v \in VIOptions(tok), z \in BackendZones}
        : tok \in IssuedTokens}

\* The payload read when the response is not a success: nothing of it is used.
EmptyBody ==
    [VehicleInfos |-> <<>>, VehicleInfoList |-> <<>>, CustomerInfoVI |-> VI("", ""),
     VehicleInfo |-> VI("", ""), Timezone |-> "Europe/London"]

\* What the environment decides for one Login call of revision r: the
\* response, its payload (read only when the response is a success) and how
\* the write of the session file ends.
LoginInputs(r, filename) ==
    ({resp \in Responses : Classify(r, resp) # Nil} \X {EmptyBody} \X {"ok"})
    \cup ({resp \in Responses : Classify(r, resp) = Nil /\ resp.message = ""}
            \X LoginBodies
            \X (IF filename = "" THEN {"ok"} ELSE SaveOutcomes))

\* The switch of Login in part_003 that picks the vehicle info.
PickVI(body) ==
    CASE Len(body.VehicleInfos) > 0 -> body.VehicleInfos[1]
      [] Len(body.VehicleInfoList) > 0 -> body.VehicleInfoList[1]
      [] body.CustomerInfoVI.vin # "" -> body.CustomerInfoVI
      [] OTHER -> body.VehicleInfo

\* Login of carwings.go indexes GenTwoVI.VI[0] when GenOneVI is empty.
PickVICfgPanics(body) == Len(body.VehicleInfos) = 0 /\ Len(body.VehicleInfoList) = 0

PickVICfg(body) ==
    IF Len(body.VehicleInfos) > 0 THEN body.VehicleInfos[1] ELSE body.VehicleInfoList[1]

LoginParams(sess) ==
    [k \in {"initial_app_str", "UserId", "Password", "RegionCode"} |->
        CASE k = "UserId" -> sess.username
          [] k = "Password" -> sess.encpw
          [] k = "RegionCode" -> sess.Region
          [] OTHER -> "initialAppStrings"]

\* The login form of carwings.go.
LoginParamsCfg(sess) ==
    [k \in {"initial_app_strings", "UserId", "Password", "RegionCode"} |->
        CASE k = "UserId" -> sess.username
          [] k = "Password" -> sess.encpw
          [] k = "RegionCode" -> sess.Region
          [] OTHER -> "initialAppStrings"]

\* Session.Login of part_003 for one response: the session, the file and the
\* error it returns.
Login(sess, f, resp, body, outcome) ==
    LET e == apiRequest(resp)
        vi == PickVI(body)
        s1 == [sess EXCEPT !.customSessionID = vi.sid,
                           !.VIN = vi.vin,
                           !.tz = body.Timezone,
                           !.loc = IF LoadLocationFails(body.Timezone) THEN "UTC"
                                   ELSE LoadLocation(body.Timezone)]
        sv == save(s1, f, outcome) IN
    CASE e # Nil -> [s |-> sess, file |-> f, err |-> e, vi |-> VI("", ""), saved |-> "none"]
      [] vi.vin = "" ->
            [s |-> sess, file |-> f, err |-> ErrVehicleInfoUnavailable, vi |-> VI("", ""),
             saved |-> "none"]
      [] s1.Filename # "" ->
            [s |-> sv.s, file |-> sv.file, err |-> sv.err, vi |-> vi, saved |-> outcome]
      [] OTHER -> [s |-> s1, file |-> f, err |-> Nil, vi |-> vi, saved |-> "none"]

\* Session.Login of carwings.go for one response.
LoginCfg(sess, resp, body) ==
    LET e == apiRequestCfg(resp)
        vi == PickVICfg(body)
        failed == LoadLocationFails(body.Timezone) IN
    CASE e # Nil -> [s |-> sess, err |-> e, vi |-> VI("", "")]
      [] PickVICfgPanics(body) -> [s |-> sess, err |-> Panic, vi |-> VI("", "")]
      [] OTHER ->
            [s |-> [sess EXCEPT !.customSessionID = vi.sid,
                                !.VIN = vi.vin,
                                !.tz = IF failed THEN "Local" ELSE body.Timezone,
                                !.loc = IF failed THEN "Local"
                                        ELSE LoadLocation(body.Timezone)],
             err |-> Nil, vi |-> vi]

\* Session.connect of carwings.go up to its call of Login: the InitialApp
\* exchange, the encryption of the password, the configured time zone.
connectCfg(sess, resp, key) ==
    LET e == apiRequestCfg(resp) IN
    CASE e # Nil -> [s |-> sess, err |-> e]
      [] encryptFails(key) -> [s |-> [sess EXCEPT !.encpw = NoCipher], err |-> KeySizeError]
      [] OTHER ->
            [s |-> [sess EXCEPT !.encpw = encrypt(sess.Password, key),
                                !.tz = IF sess.TimeZone # "" THEN sess.TimeZone ELSE sess.tz],
             err |-> Nil]

\* Session.connect of carwings.go after Login returned nil: the session is
\* saved when it has both identifiers; a failure to save is only logged.
connectSaveCfg(sess, f, outcome) ==
    IF sess.Filename # "" /\ sess.customSessionID # "" /\ sess.VIN # ""
    THEN [file |-> SaveCfg(sess, f, outcome).file, saved |-> outcome]
    ELSE [file |-> f, saved |-> "none"]

-----------------------------------------------------------------------------
(* Initial states *)

\* &carwings.Session{Region: region, Filename: sessionFile} (main.go), and
\* &Session{config: cfg} (Connect of carwings.go).  The fields TimeZone and
\* Password hold config.TimeZone and config.Password of carwings.go, Region,
\* Filename and username its config.Region, config.SessionFile and
\* config.Username; part_003 has no such fields and keeps them "".
NewSession(r, region, filename, zone) ==
    [Region |-> region,
     Filename |-> filename,
     username |-> IF r = "carwings.go" THEN UserName ELSE "",
     Password |-> IF r = "carwings.go" THEN PlainPassword ELSE "",
     TimeZone |-> IF r = "carwings.go" THEN zone ELSE "",
     encpw |-> NoCipher,
     VIN |-> "",
     customSessionID |-> "",
     tz |-> "",
     loc |-> "nil"]

\* What the session file can hold when the program starts.
InitialFiles ==
    {NoFile, GarbageFile}
    \cup {FileRecord(v, t, z) : v \in VINs, t \in {"", "s1"}, z \in BackendZones}

\* w when no poll loop runs.
NoWait == [pc |-> "none"]

\* arg and ret when no single function is called; srv when no server runs.
NoArg == [fn |-> "none"]

NoRet == [err |-> NoResult]

NoServer == [mode |-> "none"]

\* cur when no Session.apiRequest is in progress.  During one, given is the
\* map the caller handed in and params the map as setCommonParams left it.
NoCall == [ep |-> "", given |-> NoParams, params |-> NoParams]

Init ==
    /\ rev \in Revs
    /\ \E region \in Regions, filename \in Filenames, zone \in ConfigZones :
          /\ (rev = "part_003" => zone = "")
          /\ s = NewSession(rev, region, filename, zone)
    /\ file \in InitialFiles
    /\ (s.Filename = "" => file = NoFile)
    /\ pc = "new"
    /\ cur = NoCall
    /\ sent = <<>>
    /\ result = NoResult
    /\ last = NoResponse
    /\ loginResp = EmptyBody
    /\ w = NoWait
    /\ arg = NoArg
    /\ ret = NoRet
    /\ srv = NoServer

\* Where the flow stands once a call has returned err: a panic kills the
\* process, a failed Connect ends it (main exits), otherwise the call has
\* returned to its caller ("returned"), which reads the result and goes on.
After(err, onError) ==
    CASE err = Panic -> "crashed"
      [] err # Nil -> onError
      [] OTHER -> "returned"

-----------------------------------------------------------------------------
(* Connect *)

\* Session.Connect of part_003 up to its call of Login: the InitialApp
\* exchange, the encryption, the load of the session file.
Connect ==
    /\ pc = "new"
    /\ rev = "part_003"
    /\ \E resp \in Responses, key \in {GoodKey, BadKey} :
          LET e == apiRequest(resp)
              s1 == [s EXCEPT !.username = UserName,
                              !.encpw = encrypt(PlainPassword, key)]
              l == load(s1, file) IN
          /\ (e # Nil => key = GoodKey)
          /\ sent' = <<Sent("InitialApp_v2.php", [k \in {"initial_app_str"} |-> "initialAppStrings"], e)>>
          /\ CASE e # Nil ->
                    /\ s' = s
                    /\ result' = e
                    /\ pc' = After(e, "failed")
               [] encryptFails(key) ->
                    /\ s' = s
                    /\ result' = KeySizeError
                    /\ pc' = "failed"
               [] s1.Filename # "" /\ l.err = Nil ->
                    /\ s' = l.s
                    /\ result' = Nil
                    /\ pc' = "returned"
               [] s1.Filename # "" ->
                    /\ s' = l.s
                    /\ result' = NoResult
                    /\ pc' = "connect_login"
               [] OTHER ->
                    /\ s' = s1
                    /\ result' = NoResult
                    /\ pc' = "connect_login"
    /\ UNCHANGED <<rev, file, cur, aside>>

\* The Login call that ends Session.Connect of part_003.
ConnectLogin ==
    /\ pc = "connect_login"
    /\ rev = "part_003"
    /\ \E in \in LoginInputs("part_003", s.Filename) :
          LET r == Login(s, file, in[1], in[2], in[3]) IN
          /\ sent' = Append(sent, SentLogin(LoginParams(s), apiRequest(in[1]), r.vi, r.saved))
          /\ s' = r.s
          /\ file' = r.file
          /\ result' = r.err
          /\ pc' = After(r.err, "failed")
    /\ UNCHANGED <<rev, cur, aside>>

\* Connect of carwings.go up to the Login call of Session.connect: the load
\* of the session file, then connect's early return or its InitialApp exchange.
ConnectCfg ==
    /\ pc = "new"
    /\ rev = "carwings.go"
    /\ LET l == IF s.Filename # "" THEN LoadCfg(s, file) ELSE [s |-> s, err |-> Nil] IN
       CASE s.Filename # "" /\ l.err = Nil /\ l.s.customSessionID # "" /\ l.s.VIN # "" ->
                 \* a usable record: return s, nil
                 /\ s' = l.s
                 /\ result' = Nil
                 /\ pc' = "returned"
                 /\ sent' = <<>>
         [] s.Filename # "" /\ l.err = Nil ->
                 \* the else branch calls err.Error() on a nil error
                 /\ s' = l.s
                 /\ result' = Panic
                 /\ pc' = "crashed"
                 /\ sent' = <<>>
         [] s.Filename = "" ->
                 \* connect returns nil at once
                 /\ s' = s
                 /\ result' = Nil
                 /\ pc' = "returned"
                 /\ sent' = <<>>
         [] OTHER ->
                 \E resp \in Responses, key \in {GoodKey, BadKey} :
                    LET c == connectCfg(l.s, resp, key) IN
                    /\ (apiRequestCfg(resp) # Nil => key = GoodKey)
                    /\ sent' = <<Sent("InitialApp.php", [k \in {"initial_app_strings"} |-> "initialAppStrings"], apiRequestCfg(resp))>>
                    /\ s' = c.s
                    /\ result' = IF c.err = Nil THEN NoResult ELSE c.err
                    /\ pc' = IF c.err = Nil THEN "connect_login" ELSE After(c.err, "failed")
    /\ UNCHANGED <<rev, file, cur, aside>>

\* The rest of Session.connect of carwings.go: Login, then the save.
connectLoginCfg(next, onError) ==
    \E in \in LoginInputs("carwings.go", s.Filename) :
       LET r == LoginCfg(s, in[1], in[2])
           sv == IF r.err = Nil THEN connectSaveCfg(r.s, file, in[3])
                 ELSE [file |-> file, saved |-> "none"] IN
       /\ sent' = Append(sent, SentLogin(LoginParamsCfg(s), apiRequestCfg(in[1]), r.vi, sv.saved))
       /\ s' = r.s
       /\ file' = sv.file
       /\ result' = IF r.err = Nil /\ next # "returned" THEN NoResult ELSE r.err
       /\ pc' = IF r.err = Nil THEN next ELSE After(r.err, onError)

ConnectLoginCfg ==
    /\ pc = "connect_login"
    /\ rev = "carwings.go"
    /\ connectLoginCfg("returned", "failed")
    /\ UNCHANGED <<rev, cur, aside>>

-----------------------------------------------------------------------------
(* Session.apiRequest *)

\* Faulty variants: the signal is handed to the caller / every error is retried.
needsRelogin_never(e) == FALSE

needsRelogin_anyError(e) == e \notin {Nil, Panic}

\* Session.apiRequest: if err == ErrNotLoggedIn (the same test in both revisions).
needsRelogin(e) == e = ErrNotLoggedIn

\* The first attempt of Session.apiRequest, made by a public operation.
Request ==
    /\ pc = "idle"
    /\ \E call \in Calls, resp \in Responses :
          LET params == setCommonParams(s, call.params)
              e == Classify(rev, resp) IN
          /\ cur' = [ep |-> call.ep, given |-> call.params, params |-> params]
          /\ sent' = <<Sent(call.ep, params, e)>>
          /\ result' = IF needsRelogin(e) THEN NoResult ELSE e
          /\ pc' = IF needsRelogin(e) THEN "relogin" ELSE After(e, "returned")
    /\ UNCHANGED <<rev, s, file, aside>>

\* Faulty variant: the original call is retried whatever Login returned.
Relogin_retryAnyway ==
    /\ pc = "relogin"
    /\ rev = "part_003"
    /\ \E in \in LoginInputs("part_003", s.Filename) :
          LET r == Login(s, file, in[1], in[2], in[3]) IN
          /\ sent' = Append(sent, SentLogin(LoginParams(s), apiRequest(in[1]), r.vi, r.saved))
          /\ s' = r.s
          /\ file' = r.file
          /\ result' = NoResult
          /\ pc' = "retry"
    /\ UNCHANGED <<rev, cur, aside>>

\* part_003: s.Login() after the first attempt returned ErrNotLoggedIn.
Relogin ==
    /\ pc = "relogin"
    /\ rev = "part_003"
    /\ \E in \in LoginInputs("part_003", s.Filename) :
          LET r == Login(s, file, in[1], in[2], in[3]) IN
          /\ sent' = Append(sent, SentLogin(LoginParams(s), apiRequest(in[1]), r.vi, r.saved))
          /\ s' = r.s
          /\ file' = r.file
          /\ result' = IF r.err = Nil THEN NoResult ELSE r.err
          /\ pc' = IF r.err = Nil THEN "retry" ELSE After(r.err, "returned")
    /\ UNCHANGED <<rev, cur, aside>>

\* carwings.go: s.connect() after the first attempt returned ErrNotLoggedIn,
\* up to its call of Login.
ReconnectCfg ==
    /\ pc = "relogin"
    /\ rev = "carwings.go"
    /\ IF s.Filename = ""
       THEN \* connect returns nil at once
            /\ pc' = "retry"
            /\ UNCHANGED <<s, sent, result>>
       ELSE \E resp \in Responses, key \in {GoodKey, BadKey} :
               LET c == connectCfg(s, resp, key) IN
               /\ (apiRequestCfg(resp) # Nil => key = GoodKey)
               /\ sent' = Append(sent, Sent("InitialApp.php", [k \in {"initial_app_strings"} |-> "initialAppStrings"], apiRequestCfg(resp)))
               /\ s' = c.s
               /\ result' = IF c.err = Nil THEN NoResult ELSE c.err
               /\ pc' = IF c.err = Nil THEN "relogin_login" ELSE After(c.err, "returned")
    /\ UNCHANGED <<rev, file, cur, aside>>

\* carwings.go: the Login and the save that end s.connect() in a re-login.
ReloginCfg ==
    /\ pc = "relogin_login"
    /\ rev = "carwings.go"
    /\ connectLoginCfg("retry", "returned")
    /\ UNCHANGED <<rev, cur, aside>>

\* Faulty variant: a retry that is answered ErrNotLoggedIn logs in again.
Retry_relogin ==
    /\ pc = "retry"
    /\ \E resp \in Responses :
          LET params == setCommonParams(s, cur.params)
              e == Classify(rev, resp) IN
          /\ sent' = Append(sent, Sent(cur.ep, params, e))
          /\ result' = IF needsRelogin(e) THEN NoResult ELSE e
          /\ pc' = IF needsRelogin(e) THEN "relogin" ELSE After(e, "returned")
    /\ UNCHANGED <<rev, s, file, cur, aside>>

\* The second attempt of Session.apiRequest; its error is returned as it is.
Retry ==
    /\ pc = "retry"
    /\ \E resp \in Responses :
          LET params == setCommonParams(s, cur.params)
              e == Classify(rev, resp) IN
          /\ sent' = Append(sent, Sent(cur.ep, params, e))
          /\ result' = e
          /\ pc' = After(e, "returned")
    /\ UNCHANGED <<rev, s, file, cur, aside>>

\* The caller has read the result of Connect or of an operation; the session
\* is ready for the next operation.
Return ==
    /\ pc = "returned"
    /\ pc' = "idle"
    /\ cur' = NoCall
    /\ sent' = <<>>
    /\ result' = NoResult
    /\ UNCHANGED <<rev, s, file, aside>>

Next ==
    \/ Connect
    \/ ConnectLogin
    \/ ConnectCfg
    \/ ConnectLoginCfg
    \/ Request
    \/ Relogin
    \/ ReconnectCfg
    \/ ReloginCfg
    \/ Retry
    \/ Return

Spec == Init /\ [][Next]_vars

-----------------------------------------------------------------------------
(* The classification alone: the package-level apiRequest applied once to *)
(* each response of a wider set.                                          *)

ClassifyNumerals == Numerals \cup {"0", "404", "503"}

ClassifyInputs ==
    Responses
    \cup {[kind |-> "json", status |-> [form |-> f, text |-> t], message |-> m] :
            f \in {"number", "string"}, t \in ClassifyNumerals, m \in Messages}

InitClassify ==
    /\ rev \in Revs
    /\ s = NewSession(rev, "NNA", "", "")
    /\ file = NoFile
    /\ pc = "classify"
    /\ cur = NoCall
    /\ sent = <<>>
    /\ result = NoResult
    /\ last \in ClassifyInputs
    /\ loginResp = EmptyBody
    /\ w = NoWait
    /\ arg = NoArg
    /\ ret = NoRet
    /\ srv = NoServer

\* One call of the package-level apiRequest on the response last.
apiRequestStep ==
    /\ pc = "classify"
    /\ result' = Classify(rev, last)
    /\ pc' = "classified"
    /\ UNCHANGED <<rev, s, file, cur, sent, last, loginResp, w, arg, ret, srv>>

NextClassify == apiRequestStep

SpecClassify == InitClassify /\ [][NextClassify]_vars

-----------------------------------------------------------------------------
(* Login alone: one call of Login on each combination of the places a     *)
(* login response can hold the vehicle info in, each place with a VIN of  *)
(* its own.                                                               *)

\* What a list place can hold for the VIN v: nothing, a record without a VIN,
\* a record with it, a record without a VIN followed by one with it.
ShapeLists(v) ==
    {<<>>, <<VI("", "")>>, <<VI(v, "s1")>>, <<VI("", ""), VI(v, "s1")>>}

ShapeBodies ==
    {[VehicleInfos |-> l1, VehicleInfoList |-> l2, CustomerInfoVI |-> c,
      VehicleInfo |-> v, Timezone |-> "Europe/London"] :
        l1 \in ShapeLists("v1"), l2 \in ShapeLists("v2"),
        c \in {VI("", ""), VI("v3", "s1")}, v \in {VI("", ""), VI("v4", "s1")}}

\* The session as Connect leaves it when it calls Login; no session file.
InitLogin ==
    /\ rev \in Revs
    /\ s = [NewSession(rev, "NNA", "", "") EXCEPT !.username = UserName,
                                                 !.encpw = encrypt(PlainPassword, GoodKey)]
    /\ file = NoFile
    /\ pc = "login"
    /\ cur = NoCall
    /\ sent = <<>>
    /\ result = NoResult
    /\ last \in Responses
    /\ loginResp \in ShapeBodies
    /\ w = NoWait
    /\ arg = NoArg
    /\ ret = NoRet
    /\ srv = NoServer

\* One call of Login on the response last with the payload loginResp.
LoginStep ==
    /\ pc = "login"
    /\ LET r == IF rev = "part_003" THEN Login(s, file, last, loginResp, "ok")
                ELSE LoginCfg(s, last, loginResp) IN
       /\ s' = r.s
       /\ result' = r.err
       /\ sent' = <<SentLogin(IF rev = "part_003" THEN LoginParams(s) ELSE LoginParamsCfg(s),
                              Classify(rev, last), r.vi, "none")>>
    /\ pc' = "logged"
    /\ UNCHANGED <<rev, file, cur, last, loginResp, w, arg, ret, srv>>

NextLogin == LoginStep

SpecLogin == InitLogin /\ [][NextLogin]_vars

-----------------------------------------------------------------------------
(* The poll loop: waitForResult of main.go (with part_003) and            *)
(* Session.WaitForResult of carwings.go, driven by CheckUpdate.  Time is  *)
(* counted in seconds from the call of the loop.                          *)

\* time.Sleep(3 * time.Second) before the first poll, main.go
InitialDelay == 3

\* time.Sleep(10 * time.Second) before the first poll, carwings.go
InitialDelayCfg == 10

\* time.Sleep(3 * time.Second) between two polls (both revisions)
Interval == 3

\* time.Minute, the limit WaitForResult of carwings.go compares with
TimeoutCfg == 60

\* A poll call takes 0..MaxPollTime seconds; a sleep ends 0..MaxJitter
\* seconds late.
MaxPollTime == 2

MaxJitter == 1

\* The durations the caller is configured with (the -timeout flag).
Timeouts == {0, 4, 9}

ErrUpdateFailed == Err("ErrUpdateFailed", 0, "")

\* fmt.Errorf("timed out waiting %v for update", timeout)
TimedOut == Err("timed out", 0, "")

electricWaveAbnormal == "ELECTRIC_WAVE_ABNORMAL"

\* What one poll request can come back with: the error of Session.apiRequest
\* and, when it is nil, responseFlag and operationResult.
PollResponses ==
    {[err |-> Nil, flag |-> f, operationResult |-> o] :
        f \in {0, 1}, o \in {"START", electricWaveAbnormal}}
    \cup {[err |-> e, flag |-> 0, operationResult |-> ""] :
            e \in {TransportError, StatusError(500, "")}}

\* Session.CheckUpdate: (done, err) for one response.
CheckUpdate(resp) ==
    IF resp.err # Nil
    THEN [done |-> FALSE, err |-> resp.err]
    ELSE [done |-> resp.flag = 1,
          err |-> IF resp.operationResult = electricWaveAbnormal THEN ErrUpdateFailed ELSE Nil]

\* The delay and the limit each revision's loop works with; timeout is the
\* duration its caller is configured with, for which WaitForResult of
\* carwings.go has no parameter.
Delay(r) == IF r = "part_003" THEN InitialDelay ELSE InitialDelayCfg

Limit(r, timeout) == IF r = "part_003" THEN timeout ELSE TimeoutCfg

\* Faulty variant: a sleep that returns at once.
Sleep_skip(now, d, late) == now

\* time.Sleep(d) called at now, ending late seconds after d has passed.
Sleep(now, d, late) == now + d + late

\* Faulty variants: a complete poll does not end the loop / an error of the
\* poll is not looked at.
afterPoll_ignoreDone(done, err, since, limit) ==
    CASE since > limit -> [ret |-> TRUE, err |-> TimedOut]
      [] err # Nil -> [ret |-> TRUE, err |-> err]
      [] OTHER -> [ret |-> FALSE, err |-> Nil]

afterPoll_ignoreError(done, err, since, limit) ==
    CASE done -> [ret |-> TRUE, err |-> Nil]
      [] since > limit -> [ret |-> TRUE, err |-> TimedOut]
      [] OTHER -> [ret |-> FALSE, err |-> Nil]

\* Faulty variant: the time is looked at before the result of the poll.
afterPoll_timeFirst(done, err, since, limit) ==
    CASE since > limit -> [ret |-> TRUE, err |-> TimedOut]
      [] done -> [ret |-> TRUE, err |-> Nil]
      [] err # Nil -> [ret |-> TRUE, err |-> err]
      [] OTHER -> [ret |-> FALSE, err |-> Nil]

\* The body of the loop after the poll call: break when done, replace the
\* error when the time is out, return an error, or go on to the sleep.
afterPoll(done, err, since, limit) ==
    CASE done -> [ret |-> TRUE, err |-> Nil]
      [] since > limit -> [ret |-> TRUE, err |-> TimedOut]
      [] err # Nil -> [ret |-> TRUE, err |-> err]
      [] OTHER -> [ret |-> FALSE, err |-> Nil]

NoPoll == [done |-> FALSE, err |-> Nil, abnormal |-> FALSE]

\* The loop has just been called with the duration timeout.
Called(timeout) ==
    [pc |-> "called", now |-> 0, start |-> 0, timeout |-> timeout, polls |-> 0,
     notyet |-> 0, pollAt |-> 0, retAt |-> 0, poll |-> NoPoll, err |-> NoResult,
     cancel |-> FALSE]

InitPoll ==
    /\ rev \in Revs
    /\ s = NewSession(rev, "NNA", "", "")
    /\ file = NoFile
    /\ pc = "wait"
    /\ cur = NoCall
    /\ sent = <<>>
    /\ result = NoResult
    /\ last = NoResponse
    /\ loginResp = EmptyBody
    /\ \E timeout \in Timeouts : w = Called(timeout)
    /\ arg = NoArg
    /\ ret = NoRet
    /\ srv = NoServer

\* The sleep before the first poll; start := time.Now() follows it.
FirstSleep ==
    /\ w.pc = "called"
    /\ \E late \in 0..MaxJitter :
          LET t == Sleep(w.now, Delay(rev), late) IN
          w' = [w EXCEPT !.pc = "poll", !.now = t, !.start = t]
    /\ UNCHANGED <<rev, s, file, pc, cur, sent, result, last, loginResp, arg, ret, srv>>

\* One poll call and the rest of the loop body up to the next sleep.
PollOnce ==
    /\ w.pc = "poll"
    /\ \E resp \in PollResponses, d \in 0..MaxPollTime :
          LET p == CheckUpdate(resp)
              t == w.now + d
              a == afterPoll(p.done, p.err, t - w.start, Limit(rev, w.timeout)) IN
          w' = [w EXCEPT !.pc = IF a.ret THEN "returned" ELSE "sleep",
                         !.now = t,
                         !.polls = @ + 1,
                         !.notyet = IF ~p.done /\ p.err = Nil THEN @ + 1 ELSE @,
                         !.pollAt = w.now,
                         !.retAt = t,
                         !.poll = [done |-> p.done, err |-> p.err,
                                   abnormal |-> resp.operationResult = electricWaveAbnormal],
                         !.err = IF a.ret THEN a.err ELSE NoResult]
    /\ UNCHANGED <<rev, s, file, pc, cur, sent, result, last, loginResp, arg, ret, srv>>

\* The sleep between two polls.
SleepInterval ==
    /\ w.pc = "sleep"
    /\ \E late \in 0..MaxJitter :
          w' = [w EXCEPT !.pc = "poll", !.now = Sleep(w.now, Interval, late)]
    /\ UNCHANGED <<rev, s, file, pc, cur, sent, result, last, loginResp, arg, ret, srv>>

\* The environment asks for the loop to stop (a shutdown of the process);
\* nothing in the loop reads the signal.
Cancel ==
    /\ w.pc \in {"called", "poll", "sleep"}
    /\ ~w.cancel
    /\ w' = [w EXCEPT !.cancel = TRUE]
    /\ UNCHANGED <<rev, s, file, pc, cur, sent, result, last, loginResp, arg, ret, srv>>

NextPoll ==
    \/ FirstSleep
    \/ PollOnce
    \/ SleepInterval
    \/ Cancel

SpecPoll == InitPoll /\ [][NextPoll]_vars

-----------------------------------------------------------------------------
(* Single functions of the library, each called once on one input (SpecFn) *)

\* The revisions of the library whose functions are called here.
FnRevs == {"part_002", "part_003", "carwings.go", "part_004"}

\* A text is a sequence of one-character strings.
Digits == {"0", "1", "2", "3", "4", "5", "6", "7", "8", "9"}

DigitValue(c) ==
    CASE c = "0" -> 0 [] c = "1" -> 1 [] c = "2" -> 2 [] c = "3" -> 3
      [] c = "4" -> 4 [] c = "5" -> 5 [] c = "6" -> 6 [] c = "7" -> 7
      [] c = "8" -> 8 [] c = "9" -> 9

IsDigit(v, j) == j >= 1 /\ j <= Len(v) /\ v[j] \in Digits

\* The decimal value of the digits v[a..b].
RECURSIVE Decimal(_, _, _)
Decimal(v, a, b) ==
    IF b < a THEN 0 ELSE Decimal(v, a, b - 1) * 10 + DigitValue(v[b])

\* strconv.Atoi on a text: the value and whether the text is a numeral.
ParseInt(v) ==
    IF Len(v) > 0 /\ \A k \in 1..Len(v) : v[k] \in Digits
    THEN [ok |-> TRUE, n |-> Decimal(v, 1, Len(v))]
    ELSE [ok |-> FALSE, n |-> 0]

(* Credential encryption: padding *)

\* cipher.BlockSize() of the Blowfish cipher.
BlockSize == 8

\* The longest plaintext encrypted here.
MaxPlainLen == 17

\* A plaintext of n bytes.
Plaintext(n) == [i \in 1..n |-> 97]

Repeat(b, n) == [i \in 1..n |-> b]

pkcs5Padding(data, blocksize) ==
    LET padLen == blocksize - (Len(data) % blocksize) IN
    data \o Repeat(padLen, padLen)

\* The source encrypt hands to the cipher in revision r, and the length of
\* the ciphertext before base64 (dst has the length of the padded source).
encryptSrc(r, src) ==
    LET padded == IF r = "part_002"
                  THEN IF Len(src) % BlockSize # 0
                       THEN pkcs5Padding(src, BlockSize)
                       ELSE src
                  ELSE pkcs5Padding(src, BlockSize) IN
    [src |-> padded, dstLen |-> Len(padded)]

(* Timestamps *)

\* A cwTime: the fields of the time.Time it wraps (UTC).
Time(y, mo, d, h, mi, sec, frac) ==
    [year |-> y, month |-> mo, day |-> d, hour |-> h, min |-> mi, sec |-> sec, frac |-> frac]

\* The zero value of cwTime.
ZeroTime == Time(1, 1, 1, 0, 0, 0, <<>>)

shortMonthNames == <<<<"J", "a", "n">>, <<"F", "e", "b">>, <<"M", "a", "r">>, <<"A", "p", "r">>, <<"M", "a", "y">>, <<"J", "u", "n">>, <<"J", "u", "l">>, <<"A", "u", "g">>, <<"S", "e", "p">>, <<"O", "c", "t">>, <<"N", "o", "v">>, <<"D", "e", "c">>>>

\* The layouts cwTime.UnmarshalJSON passes to time.Parse, in its order, each
\* cut into the chunks time.Parse reads it by: a reference field ("2006",
\* "01", "02", "_2", "15", "03", "04", "05", "Jan", "PM") or one literal
\* character.  The quotes and backslashes of the raw JSON are literals.
Layouts == <<
    <<"\"", "2006", "\\", "/", "01", "\\", "/", "02", " ", "15", ":", "04", "\"">>,
    <<"\"", "2006", "-", "01", "-", "02", " ", "15", ":", "04", ":", "05", "\"">>,
    <<"\"", "2006", "-", "01", "-", "02", "T", "15", ":", "04", ":", "05", "Z", "\"">>,
    <<"\"", "2006", "-", "01", "-", "02", "T", "15", ":", "04", ":", "05", "\"">>,
    <<"\"", "Jan", " ", "_2", ",", " ", "2006", " ", "03", ":", "04", " ", "PM", "\"">> >>

isLeap(y) == y % 4 = 0 /\ (y % 100 # 0 \/ y % 400 = 0)

daysIn(m, y) ==
    IF m = 2 THEN (IF isLeap(y) THEN 29 ELSE 28)
    ELSE IF m \in {4, 6, 9, 11} THEN 30 ELSE 31

\* The position after the spaces of v from j on.
RECURSIVE cutspace(_, _)
cutspace(v, j) == IF j <= Len(v) /\ v[j] = " " THEN cutspace(v, j + 1) ELSE j

\* The position after the digits of v from j on.
RECURSIVE cutdigits(_, _)
cutdigits(v, j) == IF IsDigit(v, j) THEN cutdigits(v, j + 1) ELSE j

\* getnum(value, fixed): one or two digits, exactly two when fixed.
getnum(v, j, fixed) ==
    IF ~IsDigit(v, j) THEN [ok |-> FALSE, n |-> 0, j |-> j]
    ELSE IF ~IsDigit(v, j + 1)
         THEN (IF fixed THEN [ok |-> FALSE, n |-> 0, j |-> j]
               ELSE [ok |-> TRUE, n |-> Decimal(v, j, j), j |-> j + 1])
         ELSE [ok |-> TRUE, n |-> Decimal(v, j, j + 1), j |-> j + 2]

\* A two-digit field read as two into the member name of acc, when it is
\* within lo..hi.
Field(acc, j, two, name, lo, hi) ==
    IF two.ok /\ two.n >= lo /\ two.n <= hi
    THEN [ok |-> TRUE, j |-> two.j, acc |-> [acc EXCEPT ![name] = two.n]]
    ELSE [ok |-> FALSE, j |-> j, acc |-> acc]

\* The seconds r, and the fraction that may follow them.
Fraction(v, r) ==
    IF r.ok /\ r.j <= Len(v) /\ v[r.j] \in {".", ","} /\ IsDigit(v, r.j + 1)
    THEN [ok |-> TRUE, j |-> cutdigits(v, r.j + 1),
          acc |-> [r.acc EXCEPT !.frac = SubSeq(v, r.j + 1, cutdigits(v, r.j + 1) - 1)]]
    ELSE r

\* The day of "_2": a space is skipped, then one or two digits.
UnderDay(acc, j, n) ==
    IF n.ok THEN [ok |-> TRUE, j |-> n.j, acc |-> [acc EXCEPT !.day = n.n]]
    ELSE [ok |-> FALSE, j |-> j, acc |-> acc]

\* One chunk of a layout read from v at position j into the fields acc:
\* whether it matched, the position after it, the fields.
ParseChunk(chunk, v, j, acc) ==
    CASE chunk = "2006" ->
            IF j + 3 <= Len(v) /\ \A k \in j..(j + 3) : v[k] \in Digits
            THEN [ok |-> TRUE, j |-> j + 4, acc |-> [acc EXCEPT !.year = Decimal(v, j, j + 3)]]
            ELSE [ok |-> FALSE, j |-> j, acc |-> acc]
      [] chunk \in {"01", "02", "15", "03", "04"} ->
            Field(acc, j, getnum(v, j, TRUE),
                  CASE chunk = "01" -> "month" [] chunk = "02" -> "day"
                    [] chunk = "04" -> "min" [] OTHER -> "hour",
                  IF chunk = "01" THEN 1 ELSE 0,
                  CASE chunk = "01" -> 12 [] chunk = "02" -> 99 [] chunk = "15" -> 23
                    [] chunk = "03" -> 12 [] OTHER -> 59)
      [] chunk = "05" -> Fraction(v, Field(acc, j, getnum(v, j, TRUE), "sec", 0, 59))
      [] chunk = "_2" ->
            UnderDay(acc, j, getnum(v, IF j <= Len(v) /\ v[j] = " " THEN j + 1 ELSE j, FALSE))
      [] chunk = "Jan" ->
            IF j + 2 <= Len(v) /\ \E m \in 1..12 : shortMonthNames[m] = SubSeq(v, j, j + 2)
            THEN [ok |-> TRUE, j |-> j + 3,
                  acc |-> [acc EXCEPT !.month =
                              CHOOSE m \in 1..12 : shortMonthNames[m] = SubSeq(v, j, j + 2)]]
            ELSE [ok |-> FALSE, j |-> j, acc |-> acc]
      [] chunk = "PM" ->
            IF j + 1 <= Len(v) /\ v[j + 1] = "M" /\ v[j] \in {"A", "P"}
            THEN [ok |-> TRUE, j |-> j + 2, acc |-> [acc EXCEPT !.half = v[j]]]
            ELSE [ok |-> FALSE, j |-> j, acc |-> acc]
      [] chunk = " " ->
            IF j <= Len(v) /\ v[j] # " " THEN [ok |-> FALSE, j |-> j, acc |-> acc]
            ELSE [ok |-> TRUE, j |-> cutspace(v, j), acc |-> acc]
      [] OTHER ->
            IF j <= Len(v) /\ v[j] = chunk THEN [ok |-> TRUE, j |-> j + 1, acc |-> acc]
            ELSE [ok |-> FALSE, j |-> j, acc |-> acc]

\* The chunks of layout from the i-th on, read from v at position j.
RECURSIVE ParseFrom(_, _, _, _, _)
ParseNext(layout, i, v, acc, r) ==
    IF r.ok THEN ParseFrom(layout, i + 1, v, r.j, r.acc)
    ELSE [ok |-> FALSE, acc |-> acc]

ParseFrom(layout, i, v, j, acc) ==
    IF i > Len(layout)
    THEN [ok |-> j = Len(v) + 1, acc |-> acc]
    ELSE ParseNext(layout, i, v, acc, ParseChunk(layout[i], v, j, acc))

\* The time of the fields a: the hour of a 12-hour clock is converted, the
\* day has to exist in the month.
ParsedTime(ok, a) ==
    IF ok /\ a.day >= 1 /\ a.day <= daysIn(a.month, a.year)
    THEN [ok |-> TRUE,
          t |-> Time(a.year, a.month, a.day,
                     IF a.half = "P" /\ a.hour < 12 THEN a.hour + 12
                     ELSE IF a.half = "A" /\ a.hour = 12 THEN 0 ELSE a.hour,
                     a.min, a.sec, a.frac)]
    ELSE [ok |-> FALSE, t |-> ZeroTime]

ParsedFields(r) == ParsedTime(r.ok, r.acc)

\* time.Parse(layout, value): whether value has the layout, and the time.
Parse(layout, v) ==
    ParsedFields(ParseFrom(layout, 1, v, 1,
                           [year |-> 0, month |-> 1, day |-> 1, hour |-> 0, min |-> 0,
                            sec |-> 0, frac |-> <<>>, half |-> ""]))

\* The verb %q of fmt: the text in quotes, its quotes and backslashes escaped.
RECURSIVE Escape(_)
Escape(v) ==
    IF v = <<>> THEN <<>>
    ELSE (IF Head(v) \in {"\"", "\\"} THEN <<"\\", Head(v)>> ELSE <<Head(v)>>)
         \o Escape(Tail(v))

Quote(v) == <<"\"">> \o Escape(v) \o <<"\"">>

\* fmt.Errorf("cannot parse %q as carwings time", string(data))
ParseError(data) == [kind |-> "cannot parse as carwings time", code |-> 0, quoted |-> Quote(data)]

\* The first of the parses ps that succeeded, or 0.
FirstParsed(ps) ==
    IF \E i \in 1..Len(ps) : ps[i].ok
    THEN CHOOSE i \in 1..Len(ps) : ps[i].ok /\ \A k \in 1..(i - 1) : ~ps[k].ok
    ELSE 0

\* What UnmarshalJSON returns for data, given the parse ps[first] it found.
Unmarshalled(cwt, data, ps, first) ==
    IF data = <<>> \/ data = <<"\"", "\"">> THEN [cwt |-> cwt, err |-> Nil]
    ELSE IF first # 0 THEN [cwt |-> ps[first].t, err |-> Nil]
    ELSE [cwt |-> cwt, err |-> ParseError(data)]

\* The parse of data by each layout.
Parses(data) == [i \in 1..Len(Layouts) |-> Parse(Layouts[i], data)]

TryLayouts(cwt, data, ps) == Unmarshalled(cwt, data, ps, FirstParsed(ps))

\* Faulty variant: only the first layout is tried.
UnmarshalJSON_firstLayoutOnly(cwt, data) ==
    TryLayouts(cwt, data, <<Parse(Layouts[1], data)>>)

\* cwTime.UnmarshalJSON: the receiver afterwards and the error.
UnmarshalJSON(cwt, data) == TryLayouts(cwt, data, Parses(data))

\* The raw JSON values a timestamp member is decoded from (encoding/json
\* never hands UnmarshalJSON an empty text).
RawTimes == {
    <<"\"", "\"">>,   \* empty string
    <<"\"", "2", "0", "1", "6", "\\", "/", "0", "2", "\\", "/", "1", "4", " ", "0", "4", ":", "1", "0", "\"">>,   \* layout 1
    <<"\"", "2", "0", "1", "6", "/", "0", "2", "/", "1", "4", " ", "0", "4", ":", "1", "0", "\"">>,   \* slashes not escaped
    <<"\"", "2", "0", "1", "8", "-", "0", "8", "-", "0", "4", " ", "1", "5", ":", "0", "8", ":", "3", "3", "\"">>,   \* layout 2
    <<"\"", "2", "0", "1", "8", "-", "0", "8", "-", "0", "4", " ", "1", "5", ":", "0", "8", ":", "3", "3", ".", "5", "\"">>,   \* layout 2 with a fraction
    <<"\"", "2", "0", "1", "8", "-", "0", "8", "-", "0", "4", "T", "1", "5", ":", "0", "8", ":", "3", "3", "Z", "\"">>,   \* layout 3
    <<"\"", "2", "0", "1", "8", "-", "0", "8", "-", "0", "5", "T", "1", "0", ":", "1", "8", ":", "4", "7", "\"">>,   \* layout 4
    <<"\"", "F", "e", "b", " ", " ", "9", ",", " ", "2", "0", "1", "6", " ", "1", "1", ":", "0", "9", " ", "P", "M", "\"">>,   \* layout 5, day padded with a space
    <<"\"", "F", "e", "b", " ", "1", "0", ",", " ", "2", "0", "1", "6", " ", "1", "2", ":", "0", "9", " ", "A", "M", "\"">>,   \* layout 5
    <<"\"", "2", "0", "1", "8", "-", "1", "3", "-", "0", "4", " ", "1", "5", ":", "0", "8", ":", "3", "3", "\"">>,   \* month out of range
    <<"\"", "2", "0", "1", "8", "-", "0", "2", "-", "3", "0", " ", "1", "5", ":", "0", "8", ":", "3", "3", "\"">>,   \* day out of range
    <<"\"", "2", "0", "1", "8", "-", "0", "8", "-", "0", "4", " ", "2", "4", ":", "0", "8", ":", "3", "3", "\"">>,   \* hour out of range
    <<"\"", "a", "b", "c", "\"">>,   \* no time
    <<"\"", "a", "\\", "\\", "b", "\"">>,   \* a backslash
    <<"n", "u", "l", "l">>   \* JSON null
    }

(* Battery and climate status *)

ErrBatteryStatusUnavailable == Err("ErrBatteryStatusUnavailable", 0, "")

ErrClimateStatusUnavailable == Err("ErrClimateStatusUnavailable", 0, "")

\* errors.New("climate status not available") of carwings.go
ClimateNotAvailable == Err("errors.New", 0, "climate status not available")

\* The records member of a status-200 response: the raw text json.RawMessage
\* keeps of it and the JSON value the text denotes.  An object's text is
\* abbreviated; of its members the model keeps the four of BatteryStatus.
EmptyList == [text |-> <<"[", "]">>, json |-> "array"]

SpacedEmptyList == [text |-> <<"[", " ", "]">>, json |-> "array"]

\* A number member: written as a JSON string ("240") or as a JSON number (240).
Member(form, text) == [form |-> form, text |-> text]

BatteryRecord(form, c, r, v, p) ==
    [text |-> <<"{", "}">>, json |-> "object",
     BatteryCapacity |-> Member(form, c),
     BatteryRemainingAmount |-> Member(form, r),
     SOC |-> Member(form, v),
     PluginState |-> p]

ClimateRecord(p) == [text |-> <<"{", "}">>, json |-> "object", PluginState |-> p]

PluginStates == {"NOT_CONNECTED", "CONNECTED"}

Capacities == {<<"2", "4", "0">>, <<"1", "2">>}

Amounts == {<<"2", "2", "0">>, <<"7">>, <<"0">>, <<>>}

BatteryPayloads ==
    {EmptyList, SpacedEmptyList}
    \cup {BatteryRecord(f, c, r, v, p) :
            f \in {"string", "number"}, c \in Capacities, r \in Amounts,
            v \in {<<"9", "2">>, <<"0">>}, p \in PluginStates}

ClimatePayloads == {EmptyList, SpacedEmptyList} \cup {ClimateRecord(p) : p \in PluginStates}

\* What apiRequest returns to BatteryStatus and ClimateControlStatus.
StatusApiErrors == {Nil, StatusError(500, ""), TransportError}

\* The zero value of BatteryStatus, returned with every error.
NoBatteryStatus == [Capacity |-> 0, Remaining |-> 0, StateOfCharge |-> 0, PluginState |-> ""]

\* encoding/json on a member tagged `json:",string"` of type int: the member
\* has to be a JSON string that holds a numeral.
StringTagged(m) == m.form = "string" /\ ParseInt(m.text).ok

\* math.Round(a / b * 100) for a >= 0, b > 0
RoundPercent(a, b) == (2 * 100 * a + b) \div (2 * b)

\* Faulty variant of BatteryStatus: the state of charge is always computed.
BatteryStatus_computed(r, apiErr, payload) ==
    IF apiErr # Nil THEN [bs |-> NoBatteryStatus, err |-> apiErr]
    ELSE IF r = "part_003" /\ payload.text = <<"[", "]">>
    THEN [bs |-> NoBatteryStatus, err |-> ErrBatteryStatusUnavailable]
    ELSE IF payload.json # "object" THEN [bs |-> NoBatteryStatus, err |-> DecodeError]
    ELSE IF \/ ~StringTagged(payload.BatteryCapacity)
            \/ ~StringTagged(payload.SOC)
            \/ payload.BatteryRemainingAmount.form # "string"
            \/ (r # "part_003" /\ ~StringTagged(payload.BatteryRemainingAmount))
    THEN [bs |-> NoBatteryStatus, err |-> DecodeError]
    ELSE LET capacity == ParseInt(payload.BatteryCapacity.text).n
             remaining == ParseInt(payload.BatteryRemainingAmount.text).n IN
         [bs |-> [Capacity |-> capacity, Remaining |-> remaining,
                  StateOfCharge |-> RoundPercent(remaining, capacity),
                  PluginState |-> payload.PluginState],
          err |-> Nil]

\* Session.BatteryStatus of revision r, given what apiRequest returned and the
\* records member of the response.  In part_003 the member is kept raw and
\* decoded by BatteryStatus; in carwings.go apiRequest decodes it with the
\* response, and a failure is apiRequest's error.
BatteryStatus(r, apiErr, payload) ==
    IF r = "part_003"
    THEN IF apiErr # Nil THEN [bs |-> NoBatteryStatus, err |-> apiErr]
         ELSE IF payload.text = <<"[", "]">>
         THEN [bs |-> NoBatteryStatus, err |-> ErrBatteryStatusUnavailable]
         ELSE IF payload.json # "object" THEN [bs |-> NoBatteryStatus, err |-> DecodeError]
         ELSE IF \/ ~StringTagged(payload.BatteryCapacity)
                 \/ ~StringTagged(payload.SOC)
                 \/ payload.BatteryRemainingAmount.form # "string"
         THEN [bs |-> NoBatteryStatus, err |-> DecodeError]
         ELSE LET capacity == ParseInt(payload.BatteryCapacity.text).n
                  remaining == ParseInt(payload.BatteryRemainingAmount.text).n
                  value == ParseInt(payload.SOC.text).n
                  soc == IF value = 0 THEN RoundPercent(remaining, capacity) ELSE value IN
              [bs |-> [Capacity |-> capacity, Remaining |-> remaining,
                       StateOfCharge |-> soc, PluginState |-> payload.PluginState],
               err |-> Nil]
    ELSE IF apiErr = TransportError THEN [bs |-> NoBatteryStatus, err |-> apiErr]
         ELSE IF payload.json # "object" THEN [bs |-> NoBatteryStatus, err |-> DecodeError]
         ELSE IF \/ ~StringTagged(payload.BatteryCapacity)
                 \/ ~StringTagged(payload.SOC)
                 \/ ~StringTagged(payload.BatteryRemainingAmount)
         THEN [bs |-> NoBatteryStatus, err |-> DecodeError]
         ELSE IF apiErr # Nil THEN [bs |-> NoBatteryStatus, err |-> apiErr]
         ELSE LET capacity == ParseInt(payload.BatteryCapacity.text).n
                  remaining == ParseInt(payload.BatteryRemainingAmount.text).n
                  value == ParseInt(payload.SOC.text).n
                  soc == IF value = 0 /\ remaining # 0 /\ capacity # 0
                         THEN (remaining * 100) \div capacity
                         ELSE value IN
              [bs |-> [Capacity |-> capacity, Remaining |-> remaining,
                       StateOfCharge |-> soc, PluginState |-> payload.PluginState],
               err |-> Nil]

\* Session.ClimateControlStatus of revision r (both keep the member raw).
ClimateControlStatus(r, apiErr, payload) ==
    IF apiErr # Nil THEN [PluginState |-> "", err |-> apiErr]
    ELSE IF payload.text = <<"[", "]">>
    THEN [PluginState |-> "",
          err |-> IF r = "part_003" THEN ErrClimateStatusUnavailable ELSE ClimateNotAvailable]
    ELSE IF payload.json # "object" THEN [PluginState |-> "", err |-> DecodeError]
    ELSE [PluginState |-> payload.PluginState, err |-> Nil]

(* Session file of part_004 *)

\* The session file as Save of part_004 writes it: RegionCode is a member of
\* sessionData that Save never sets.
FileRecordUnits(vin, sid, tz, units) ==
    [kind |-> "rec", vin |-> vin, sid |-> sid, tz |-> tz, RegionCode |-> "", SiUnits |-> units]

\* Session.Save of part_004 (value receiver: the session is not changed).
SaveUnits(sess, f, outcome) ==
    LET rec == FileRecordUnits(sess.VIN, sess.customSessionID, sess.tz, sess.SiUnits) IN
    CASE outcome = "open" -> [file |-> f, err |-> FileError]
      [] outcome = "write" -> [file |-> GarbageFile, err |-> FileError]
      [] outcome = "close" -> [file |-> rec, err |-> FileError]
      [] OTHER -> [file |-> rec, err |-> Nil]

\* Session.Load of part_004 (called with a non-empty file name).
LoadUnits(sess, f) ==
    CASE f.kind = "missing" -> [s |-> sess, err |-> FileError]
      [] f.kind = "garbage" -> [s |-> sess, err |-> DecodeError]
      [] OTHER ->
            [s |-> [sess EXCEPT !.customSessionID = f.sid,
                                !.VIN = f.vin,
                                !.tz = IF LoadLocationFails(f.tz) THEN "Local" ELSE f.tz,
                                !.SiUnits = f.SiUnits,
                                !.loc = IF LoadLocationFails(f.tz) THEN "Local"
                                        ELSE LoadLocation(f.tz)],
             err |-> Nil]

(* SpecFn *)

\* A session of revision r as it is when it is saved: logged in, with the
\* zone name the login left in it.
SavedZones(r) ==
    IF r = "part_003" THEN BackendZones ELSE {"Local", "Europe/London", "Asia/Tokyo"}

SavedSessions(r) ==
    {[NewSession(r, region, "~/.carwings-session", zone) EXCEPT
         !.VIN = "v1", !.customSessionID = tok, !.tz = z, !.loc = z]
       @@ [SiUnits |-> units] :
        region \in Regions, zone \in ConfigZones, tok \in IssuedTokens,
        z \in SavedZones(r), units \in IF r = "part_003" THEN {FALSE} ELSE BOOLEAN}

\* The fresh sessions a file is loaded into.
FreshSessions(r) ==
    {NewSession(r, region, "~/.carwings-session", zone) @@ [SiUnits |-> FALSE] :
        region \in Regions, zone \in IF r = "carwings.go" THEN ConfigZones ELSE {""}}

\* What the file holds before it is saved to.
PriorFiles(r) ==
    {NoFile, GarbageFile}
    \cup IF r = "part_004" THEN {FileRecordUnits("v0", "s0", "UTC", TRUE)}
         ELSE {FileRecord("v0", "s0", "UTC")}

\* The functions revision r is called with here, and the inputs of each.
Fns(r) ==
    CASE r = "part_002" -> {"encrypt"}
      [] r = "part_004" -> {"Save"}
      [] OTHER -> {"encrypt", "UnmarshalJSON", "BatteryStatus", "ClimateControlStatus", "Save"}

FnInputs(r, fn) ==
    CASE fn = "encrypt" -> {[fn |-> fn, src |-> Plaintext(n)] : n \in 0..MaxPlainLen}
      [] fn = "UnmarshalJSON" -> {[fn |-> fn, data |-> d] : d \in RawTimes}
      [] fn = "BatteryStatus" ->
            {[fn |-> fn, apiErr |-> e, payload |-> p] :
                e \in StatusApiErrors, p \in BatteryPayloads}
      [] fn = "ClimateControlStatus" ->
            {[fn |-> fn, apiErr |-> e, payload |-> p] :
                e \in StatusApiErrors, p \in ClimatePayloads}
      [] fn = "Save" ->
            {[fn |-> fn, sess |-> x, prior |-> f, fresh |-> y] :
                x \in SavedSessions(r), f \in PriorFiles(r), y \in FreshSessions(r)}

InitFn ==
    /\ rev \in FnRevs
    /\ s = NewSession("part_003", "NNA", "", "")
    /\ file = NoFile
    /\ pc = "idle"
    /\ cur = NoCall
    /\ sent = <<>>
    /\ result = NoResult
    /\ last = NoResponse
    /\ loginResp = EmptyBody
    /\ w = NoWait
    /\ \E fn \in Fns(rev) : arg \in FnInputs(rev, fn)
    /\ ret = NoRet
    /\ srv = NoServer

FnUnchanged == UNCHANGED <<rev, s, file, pc, cur, sent, result, last, loginResp, w, arg, srv>>

encryptStep ==
    /\ arg.fn = "encrypt"
    /\ ret = NoRet
    /\ ret' = encryptSrc(rev, arg.src)
    /\ FnUnchanged

UnmarshalJSONStep ==
    /\ arg.fn = "UnmarshalJSON"
    /\ ret = NoRet
    /\ ret' = UnmarshalJSON(ZeroTime, arg.data)
    /\ FnUnchanged

BatteryStatusStep ==
    /\ arg.fn = "BatteryStatus"
    /\ ret = NoRet
    /\ ret' = BatteryStatus(rev, arg.apiErr, arg.payload)
    /\ FnUnchanged

ClimateControlStatusStep ==
    /\ arg.fn = "ClimateControlStatus"
    /\ ret = NoRet
    /\ ret' = ClimateControlStatus(rev, arg.apiErr, arg.payload)
    /\ FnUnchanged

\* The session arg.sess is saved over the file arg.prior.
SaveStep ==
    /\ arg.fn = "Save"
    /\ ret = NoRet
    /\ ret' = [step |-> "saved",
               file |-> CASE rev = "part_003" -> save(arg.sess, arg.prior, "ok").file
                          [] rev = "carwings.go" -> SaveCfg(arg.sess, arg.prior, "ok").file
                          [] OTHER -> SaveUnits(arg.sess, arg.prior, "ok").file,
               s |-> arg.fresh,
               err |-> Nil]
    /\ FnUnchanged

\* The saved file is loaded into the fresh session arg.fresh.
LoadStep ==
    /\ arg.fn = "Save"
    /\ ret # NoRet
    /\ ret.step = "saved"
    /\ LET l == CASE rev = "part_003" -> load(arg.fresh, ret.file)
                  [] rev = "carwings.go" -> LoadCfg(arg.fresh, ret.file)
                  [] OTHER -> LoadUnits(arg.fresh, ret.file) IN
       ret' = [step |-> "loaded", file |-> ret.file, s |-> l.s, err |-> l.err]
    /\ FnUnchanged

NextFn ==
    \/ encryptStep
    \/ UnmarshalJSONStep
    \/ BatteryStatusStep
    \/ ClimateControlStatusStep
    \/ SaveStep
    \/ LoadStep

SpecFn == InitFn /\ [][NextFn]_vars

-----------------------------------------------------------------------------
(* Server mode: runServer, its handlers and updateLoop (SpecServer) *)

\* const timeout = 5 * time.Second, in seconds
serverTimeout == 5

\* The clock stops here.
MaxClock == 6

\* The calls of UpdateStatus the update loop makes (the first, then one per tick).
MaxUpdates == 1

\* The requests the server receives.
Requests == {1, 2}

\* What a Session operation returns to the server.
OpErrors == {Nil, StatusError(500, "")}

\* What an operation can return from where it is: a login that failed ends
\* it with the error, a request with either.
FinishErrors(op) == IF op = "relogin" THEN OpErrors \ {Nil} ELSE OpErrors

\* The channel ch of a handler when nothing was sent to it.
EmptyChan == NoResult

\* A request that has not arrived.  kind: a POST to a write endpoint
\* ("write"), a GET to /battery or /climate ("read"), any other method
\* ("other").  pc is the handler, op the Session operation it started, ch the
\* buffered channel between the two; code and body are the response.
NoRequest ==
    [kind |-> "none", pc |-> "none", at |-> 0, op |-> "none", err |-> NoResult,
     doneAt |-> 0, ch |-> EmptyChan, code |-> 0, body |-> NoResult, answers |-> 0,
     answeredAt |-> 0]

\* updateLoop: where it is, the calls it made, those that failed, the
\* messages it printed.
NoLoop == [pc |-> "idle", runs |-> 0, failed |-> 0, printed |-> 0]

\* Faulty variant: every answer to a finished operation is a success.
answer_ok(err) == [code |-> 200, body |-> NoResult]

\* What a handler writes when its operation returned err: http.Error with
\* the error text and 500, or nothing, which net/http completes as 200.
answer(err) ==
    IF err # Nil THEN [code |-> 500, body |-> err] ELSE [code |-> 200, body |-> NoResult]

\* Faulty variant: ch is made without a buffer, so a send proceeds only while
\* the handler is receiving in its select.
send_unbuffered(q, err) ==
    IF q.pc = "waiting" THEN [op |-> "done", ch |-> err] ELSE [op |-> "blocked", ch |-> q.ch]

\* ch <- err in the goroutine of a write handler, ch := make(chan error, 1):
\* the send proceeds while the buffer has room and blocks while it is full.
send(q, err) ==
    IF q.ch = EmptyChan THEN [op |-> "done", ch |-> err] ELSE [op |-> "blocked", ch |-> q.ch]

\* The select of a write handler has a case that is ready.
SelectReady(q, now) ==
    q.kind = "write" /\ q.pc = "waiting" /\ (q.ch # EmptyChan \/ now - q.at >= serverTimeout)

InitServer ==
    /\ rev = "part_003"
    /\ s = NewSession("part_003", "NNA", "", "")
    /\ file = NoFile
    /\ pc = "idle"
    /\ cur = NoCall
    /\ sent = <<>>
    /\ result = NoResult
    /\ last = NoResponse
    /\ loginResp = EmptyBody
    /\ w = NoWait
    /\ arg = NoArg
    /\ ret = NoRet
    /\ srv = [mode |-> "server", now |-> 0, loop |-> NoLoop,
              req |-> [r \in Requests |-> NoRequest]]

ServerUnchanged ==
    UNCHANGED <<rev, s, file, pc, cur, sent, result, last, loginResp, w, arg, ret>>

\* updateLoop calls s.UpdateStatus(): on entry, then on every tick.
UpdateTick ==
    /\ srv.loop.pc = "idle"
    /\ srv.loop.runs < MaxUpdates
    /\ srv' = [srv EXCEPT !.loop.pc = "running", !.loop.runs = @ + 1]
    /\ ServerUnchanged

\* The backend answers the loop's request with 401: apiRequest logs in again.
LoopExpired ==
    /\ srv.loop.pc = "running"
    /\ srv' = [srv EXCEPT !.loop.pc = "relogin"]
    /\ ServerUnchanged

\* The login returned: apiRequest sends the request once more.
LoopRelogged ==
    /\ srv.loop.pc = "relogin"
    /\ srv' = [srv EXCEPT !.loop.pc = "retry"]
    /\ ServerUnchanged

\* UpdateStatus returns to updateLoop, which prints an error.
LoopFinish ==
    /\ srv.loop.pc \in {"running", "relogin", "retry"}
    /\ \E err \in FinishErrors(srv.loop.pc) :
          srv' = [srv EXCEPT !.loop.pc = "idle",
                             !.loop.failed = IF err # Nil THEN @ + 1 ELSE @,
                             !.loop.printed = IF err # Nil THEN @ + 1 ELSE @]
    /\ ServerUnchanged

\* A POST to /charging/on, /climate/on or /climate/off: the handler starts
\* the operation in a goroutine of its own and waits in the select.
PostArrives(r) ==
    /\ srv.req[r].kind = "none"
    /\ srv' = [srv EXCEPT !.req[r] = [NoRequest EXCEPT !.kind = "write", !.pc = "waiting",
                                         !.at = srv.now, !.op = "running"]]
    /\ ServerUnchanged

\* A GET to /battery or /climate: the handler calls the operation itself.
GetArrives(r) ==
    /\ srv.req[r].kind = "none"
    /\ srv' = [srv EXCEPT !.req[r] = [NoRequest EXCEPT !.kind = "read", !.pc = "serving",
                                         !.at = srv.now, !.op = "running"]]
    /\ ServerUnchanged

\* Any other method: http.NotFound.
OtherArrives(r) ==
    /\ srv.req[r].kind = "none"
    /\ srv' = [srv EXCEPT !.req[r] = [NoRequest EXCEPT !.kind = "other", !.pc = "answered",
                                         !.at = srv.now, !.code = 404, !.answers = 1,
                                         !.answeredAt = srv.now]]
    /\ ServerUnchanged

\* The backend answers the request's operation with 401.
OpExpired(r) ==
    /\ srv.req[r].op = "running"
    /\ srv' = [srv EXCEPT !.req[r].op = "relogin"]
    /\ ServerUnchanged

OpRelogged(r) ==
    /\ srv.req[r].op = "relogin"
    /\ srv' = [srv EXCEPT !.req[r].op = "retry"]
    /\ ServerUnchanged

\* The operation of a write handler returns: its goroutine sends the error
\* to ch and ends.
WriteFinish(r) ==
    /\ srv.req[r].kind = "write"
    /\ srv.req[r].op \in {"running", "relogin", "retry"}
    /\ \E err \in FinishErrors(srv.req[r].op) :
          srv' = [srv EXCEPT !.req[r].op = send(srv.req[r], err).op, !.req[r].err = err,
                             !.req[r].doneAt = srv.now,
                             !.req[r].ch = send(srv.req[r], err).ch]
    /\ ServerUnchanged

\* The operation of a read handler returns and the handler answers.
ReadFinish(r) ==
    /\ srv.req[r].kind = "read"
    /\ srv.req[r].op \in {"running", "relogin", "retry"}
    /\ \E err \in FinishErrors(srv.req[r].op) :
          srv' = [srv EXCEPT !.req[r].op = "done", !.req[r].err = err,
                             !.req[r].doneAt = srv.now, !.req[r].pc = "answered",
                             !.req[r].code = answer(err).code,
                             !.req[r].body = answer(err).body,
                             !.req[r].answers = @ + 1,
                             !.req[r].answeredAt = srv.now]
    /\ ServerUnchanged

\* The select of a write handler: the error received from ch, or the timer.
Select(r) ==
    /\ srv.req[r].kind = "write"
    /\ srv.req[r].pc = "waiting"
    /\ \/ /\ srv.req[r].ch # EmptyChan
          /\ srv' = [srv EXCEPT !.req[r].pc = "answered",
                                !.req[r].ch = EmptyChan,
                                !.req[r].code = answer(srv.req[r].ch).code,
                                !.req[r].body = answer(srv.req[r].ch).body,
                                !.req[r].answers = @ + 1,
                                !.req[r].answeredAt = srv.now]
       \/ /\ srv.now - srv.req[r].at >= serverTimeout
          /\ srv' = [srv EXCEPT !.req[r].pc = "answered",
                                !.req[r].code = 202,
                                !.req[r].answers = @ + 1,
                                !.req[r].answeredAt = srv.now]
    /\ ServerUnchanged

\* A second passes.  A handler whose select is ready runs before it does.
Tick ==
    /\ srv.now < MaxClock
    /\ \A r \in Requests : ~SelectReady(srv.req[r], srv.now)
    /\ srv' = [srv EXCEPT !.now = @ + 1]
    /\ ServerUnchanged

NextServer ==
    \/ UpdateTick
    \/ LoopExpired
    \/ LoopRelogged
    \/ LoopFinish
    \/ \E r \in Requests : PostArrives(r)
    \/ \E r \in Requests : GetArrives(r)
    \/ \E r \in Requests : OtherArrives(r)
    \/ \E r \in Requests : OpExpired(r)
    \/ \E r \in Requests : OpRelogged(r)
    \/ \E r \in Requests : WriteFinish(r)
    \/ \E r \in Requests : ReadFinish(r)
    \/ \E r \in Requests : Select(r)
    \/ Tick

SpecServer == InitServer /\ [][NextServer]_vars

-----------------------------------------------------------------------------
(* Server mode: the Session the goroutines share (SpecShared) *)

\* The goroutines that call the one Session at the same time: two handlers,
\* or a handler and updateLoop.  Each makes one Session.apiRequest.
Goroutines == {1, 2}

\* The identity the server starts with, and the one the backend issues to the
\* login made by goroutine g.
LoadedIdentity == [vin |-> "v0", sid |-> "s0", tz |-> "UTC"]

IssuedIdentity(g) ==
    IF g = 1 THEN [vin |-> "v1", sid |-> "s1", tz |-> "Europe/London"]
    ELSE [vin |-> "v2", sid |-> "s2", tz |-> "Asia/Tokyo"]

\* A goroutine that has not called yet.  params is the map setCommonParams
\* fills, vi the vehicle info its Login read, attempt the number of the
\* package-level apiRequest it is at.
NoGoroutine ==
    [pc |-> "idle", params |-> [k \in CommonKeys |-> ""], vi |-> LoadedIdentity,
     attempt |-> 0, err |-> NoResult]

InitShared ==
    /\ rev = "part_003"
    /\ s = [NewSession("part_003", "NNA", "", "") EXCEPT
                !.VIN = LoadedIdentity.vin,
                !.customSessionID = LoadedIdentity.sid,
                !.tz = LoadedIdentity.tz,
                !.loc = LoadLocation(LoadedIdentity.tz)]
    /\ file = NoFile
    /\ pc = "idle"
    /\ cur = NoCall
    /\ sent = <<>>
    /\ result = NoResult
    /\ last = NoResponse
    /\ loginResp = EmptyBody
    /\ w = NoWait
    /\ arg = NoArg
    /\ ret = NoRet
    /\ srv = [mode |-> "shared", g |-> [g \in Goroutines |-> NoGoroutine]]

SharedUnchanged == UNCHANGED <<rev, file, pc, cur, result, last, loginResp, w, arg, ret>>

\* Session.apiRequest is called: setCommonParams starts with the region.
CallsApiRequest(g) ==
    /\ srv.g[g].pc = "idle"
    /\ srv' = [srv EXCEPT !.g[g].pc = "set VIN", !.g[g].attempt = 1,
                          !.g[g].params["RegionCode"] = s.Region]
    /\ UNCHANGED <<s, sent>>
    /\ SharedUnchanged

\* params.Set("VIN", s.VIN)
SetVIN(g) ==
    /\ srv.g[g].pc = "set VIN"
    /\ srv' = [srv EXCEPT !.g[g].pc = "set custom_sessionid", !.g[g].params["VIN"] = s.VIN]
    /\ UNCHANGED <<s, sent>>
    /\ SharedUnchanged

\* params.Set("custom_sessionid", s.customSessionID)
SetCustomSessionID(g) ==
    /\ srv.g[g].pc = "set custom_sessionid"
    /\ srv' = [srv EXCEPT !.g[g].pc = "set tz",
                          !.g[g].params["custom_sessionid"] = s.customSessionID]
    /\ UNCHANGED <<s, sent>>
    /\ SharedUnchanged

\* params.Set("tz", s.tz)
SetTz(g) ==
    /\ srv.g[g].pc = "set tz"
    /\ srv' = [srv EXCEPT !.g[g].pc = "send", !.g[g].params["tz"] = s.tz]
    /\ UNCHANGED <<s, sent>>
    /\ SharedUnchanged

\* The package-level apiRequest with the parameters just built: after the
\* first attempt ErrNotLoggedIn leads to Login, every other result and every
\* result of the second attempt is returned.
Exchange(g) ==
    /\ srv.g[g].pc = "send"
    /\ \E resp \in Responses :
          LET e == apiRequest(resp) IN
          /\ e # Panic
          /\ sent' = Append(sent, Sent("BatteryStatusCheckRequest.php", srv.g[g].params, e))
          /\ srv' = IF needsRelogin(e) /\ srv.g[g].attempt = 1
                    THEN [srv EXCEPT !.g[g].pc = "login"]
                    ELSE [srv EXCEPT !.g[g].pc = "done", !.g[g].err = e]
    /\ UNCHANGED s
    /\ SharedUnchanged

\* The exchange of Login: an error is returned, a success yields the vehicle
\* info and the time zone that Login then stores field by field.
LoginExchange(g) ==
    /\ srv.g[g].pc = "login"
    /\ \E ok \in BOOLEAN :
          LET e == IF ok THEN Nil ELSE TransportError IN
          /\ sent' = Append(sent, SentLogin(LoginParams(s), e,
                                            IF ok THEN VI(IssuedIdentity(g).vin, IssuedIdentity(g).sid)
                                            ELSE VI("", ""), "none"))
          /\ srv' = IF ok
                    THEN [srv EXCEPT !.g[g].pc = "store customSessionID",
                                     !.g[g].vi = IssuedIdentity(g)]
                    ELSE [srv EXCEPT !.g[g].pc = "done", !.g[g].err = e]
    /\ UNCHANGED s
    /\ SharedUnchanged

\* s.customSessionID = vi.CustomSessionID
StoreCustomSessionID(g) ==
    /\ srv.g[g].pc = "store customSessionID"
    /\ s' = [s EXCEPT !.customSessionID = srv.g[g].vi.sid]
    /\ srv' = [srv EXCEPT !.g[g].pc = "store VIN"]
    /\ UNCHANGED sent
    /\ SharedUnchanged

\* s.VIN = vi.VIN
StoreVIN(g) ==
    /\ srv.g[g].pc = "store VIN"
    /\ s' = [s EXCEPT !.VIN = srv.g[g].vi.vin]
    /\ srv' = [srv EXCEPT !.g[g].pc = "store tz"]
    /\ UNCHANGED sent
    /\ SharedUnchanged

\* s.tz = loginResp.CustomerInfo.Timezone, then s.loc; Login returns nil
\* (no session file is configured) and setCommonParams is called again.
StoreTz(g) ==
    /\ srv.g[g].pc = "store tz"
    /\ s' = [s EXCEPT !.tz = srv.g[g].vi.tz,
                      !.loc = IF LoadLocationFails(srv.g[g].vi.tz) THEN "UTC"
                              ELSE LoadLocation(srv.g[g].vi.tz)]
    /\ srv' = [srv EXCEPT !.g[g].pc = "set VIN", !.g[g].attempt = 2,
                          !.g[g].params["RegionCode"] = s.Region]
    /\ UNCHANGED sent
    /\ SharedUnchanged

NextShared ==
    \/ \E g \in Goroutines : CallsApiRequest(g)
    \/ \E g \in Goroutines : SetVIN(g)
    \/ \E g \in Goroutines : SetCustomSessionID(g)
    \/ \E g \in Goroutines : SetTz(g)
    \/ \E g \in Goroutines : Exchange(g)
    \/ \E g \in Goroutines : LoginExchange(g)
    \/ \E g \in Goroutines : StoreCustomSessionID(g)
    \/ \E g \in Goroutines : StoreVIN(g)
    \/ \E g \in Goroutines : StoreTz(g)

SpecShared == InitShared /\ [][NextShared]_vars

-----------------------------------------------------------------------------
(* Server mode: updateLoop, its ticker and its context (SpecLoop) *)

\* The clock of the update loop stops here.
MaxLoopClock == 6

\* cfg.serverUpdateInterval, in seconds.
Intervals == {-1, 0, 1, 2}

\* runServer before it decides about the loop.  ticker: time.NewTicker was
\* called and t.Stop was not; nextTick: when the ticker fires next; tick: the
\* one-element buffer of t.C holds a tick; cancelled: ctx.Done() is closed;
\* runs: the calls of UpdateStatus started; ticks: the ticks received; late:
\* the calls started after the context was cancelled.
NoUpdateLoop(interval) ==
    [mode |-> "loop", interval |-> interval, now |-> 0, pc |-> "none", ticker |-> FALSE,
     nextTick |-> 0, tick |-> FALSE, cancelled |-> FALSE, runs |-> 0, ticks |-> 0,
     late |-> 0]

InitLoop ==
    /\ rev = "carwings.go"
    /\ s = NewSession("carwings.go", "NNA", "", "")
    /\ file = NoFile
    /\ pc = "idle"
    /\ cur = NoCall
    /\ sent = <<>>
    /\ result = NoResult
    /\ last = NoResponse
    /\ loginResp = EmptyBody
    /\ w = NoWait
    /\ arg = NoArg
    /\ ret = NoRet
    /\ \E interval \in Intervals : srv = NoUpdateLoop(interval)

\* if cfg.serverUpdateInterval > 0 { go updateLoop(...) }: the loop starts
\* with a call of UpdateStatus.
runServer ==
    /\ srv.pc = "none"
    /\ srv' = IF srv.interval > 0
              THEN [srv EXCEPT !.pc = "update", !.runs = 1]
              ELSE [srv EXCEPT !.pc = "not started"]
    /\ ServerUnchanged

\* UpdateStatus returns (an error is printed); after the first call the
\* ticker is made; the loop waits in its select.
UpdateStatusReturns ==
    /\ srv.pc = "update"
    /\ srv' = IF srv.runs = 1
              THEN [srv EXCEPT !.pc = "select", !.ticker = TRUE,
                               !.nextTick = srv.now + srv.interval]
              ELSE [srv EXCEPT !.pc = "select"]
    /\ ServerUnchanged

\* The ticker fires: the tick goes to the buffer of t.C, or is dropped when
\* the buffer already holds one.
TickerFires ==
    /\ srv.ticker
    /\ srv.now >= srv.nextTick
    /\ srv' = [srv EXCEPT !.tick = TRUE, !.nextTick = @ + srv.interval]
    /\ ServerUnchanged

\* The signal goroutine of runServer calls cancel().
SignalArrives ==
    /\ srv.pc # "none"
    /\ ~srv.cancelled
    /\ srv' = [srv EXCEPT !.cancelled = TRUE]
    /\ ServerUnchanged

\* select, case <-ctx.Done(): return (and the deferred t.Stop()).
SelectDone ==
    /\ srv.pc = "select"
    /\ srv.cancelled
    /\ srv' = [srv EXCEPT !.pc = "returned", !.ticker = FALSE]
    /\ ServerUnchanged

\* select, case <-t.C: UpdateStatus is called.  When both cases are ready
\* the select takes either.
SelectTick ==
    /\ srv.pc = "select"
    /\ srv.tick
    /\ srv' = [srv EXCEPT !.pc = "update", !.tick = FALSE, !.runs = @ + 1,
                          !.ticks = @ + 1,
                          !.late = IF srv.cancelled THEN @ + 1 ELSE @]
    /\ ServerUnchanged

\* A second passes.  A ticker that is due and a select that is ready run
\* before it does.
SecondPasses ==
    /\ srv.now < MaxLoopClock
    /\ ~(srv.ticker /\ srv.now >= srv.nextTick)
    /\ ~(srv.pc = "select" /\ (srv.tick \/ srv.cancelled))
    /\ srv' = [srv EXCEPT !.now = @ + 1]
    /\ ServerUnchanged

NextLoop ==
    \/ runServer
    \/ UpdateStatusReturns
    \/ TickerFires
    \/ SignalArrives
    \/ SelectDone
    \/ SelectTick
    \/ SecondPasses

SpecLoop == InitLoop /\ [][NextLoop]_vars

-----------------------------------------------------------------------------
(* Properties *)

Last(q) == q[Len(q)]

\* A Session.apiRequest is in progress or has just returned.
InOperation == cur # NoCall

OperationReturned == InOperation /\ pc \in {"returned", "crashed"}

\* Connect has returned to its caller.
ConnectReturned == cur = NoCall /\ pc \in {"returned", "failed", "crashed"}

\* Positions in the log of the attempts of the target call, of the login
\* requests and of the bootstrap requests.
Attempts == {i \in 1..Len(sent) : sent[i].ep = cur.ep}

Logins == {i \in 1..Len(sent) : sent[i].ep = "UserLoginRequest.php"}

Bootstraps == {i \in 1..Len(sent) : sent[i].ep \in {"InitialApp_v2.php", "InitialApp.php"}}

AllExpired == \A i \in 1..Len(sent) : sent[i].out = ErrNotLoggedIn

DomainEndpoints == {c.ep : c \in Calls}

ValidRecord(f) == f.kind = "rec" /\ f.vin # "" /\ f.sid # ""

\* C1: when the first attempt is classified ErrNotLoggedIn and the re-login
\* succeeds (the flow reaches the retry), exactly one login request has been
\* sent; the call then ends after exactly one further attempt of the same
\* endpoint and returns that attempt's outcome.
C1_OneLoginOneRetry ==
    /\ (InOperation /\ pc = "retry") =>
          /\ Cardinality(Logins) = 1
          /\ Cardinality(Attempts) = 1
    /\ (OperationReturned /\ Cardinality(Attempts) >= 2) =>
          /\ Cardinality(Logins) = 1
          /\ Cardinality(Attempts) = 2
          /\ Last(sent).ep = cur.ep
          /\ result = Last(sent).out

\* C2 as stated: with every request of the call classified ErrNotLoggedIn,
\* the call has made exactly two attempts of the target call when it returns.
C2_TwoAttemptsWhenAllExpired ==
    (OperationReturned /\ AllExpired) => Cardinality(Attempts) = 2

\* C2 amended: with every request of the call classified ErrNotLoggedIn, the
\* call sends exactly two requests and returns ErrNotLoggedIn: the original
\* attempt and then the request of the re-login (in part_003 the login
\* request), after which nothing is retried, or, when the re-login sends
\* nothing, the one retry.  No call ever sends more than four requests.
C2_FailsWithoutLooping ==
    /\ Len(sent) <= 4
    /\ (OperationReturned /\ AllExpired) =>
          /\ result = ErrNotLoggedIn
          /\ Len(sent) = 2
          /\ sent[1].ep = cur.ep
          /\ (rev = "part_003" => sent[2].ep = "UserLoginRequest.php")
          /\ (sent[2].ep # cur.ep => Cardinality(Attempts) = 1)

C2_Witness ==
    /\ OperationReturned
    /\ AllExpired
    /\ rev = "part_003"
    /\ Cardinality(Attempts) = 1
    /\ Cardinality(Logins) = 1

\* C3 as stated: no operation returns ErrNotLoggedIn.
C3_NeverReturnsErrNotLoggedIn ==
    OperationReturned => result # ErrNotLoggedIn

\* C3 amended: the signal of the first attempt is always consumed; an
\* operation returns ErrNotLoggedIn only after a re-login was tried, when the
\* re-login's own request or the one retry was again classified
\* authentication-expired.
C3_OnlyAfterRelogin ==
    (OperationReturned /\ result = ErrNotLoggedIn) =>
        /\ Len(sent) >= 2
        /\ sent[1].out = ErrNotLoggedIn
        /\ Last(sent).out = ErrNotLoggedIn

C3_Witness ==
    /\ OperationReturned
    /\ result = ErrNotLoggedIn
    /\ Cardinality(Attempts) = 2
    /\ Cardinality(Logins) = 1

\* C4: a response whose status is the numeral 200, 401, 408 or another one,
\* as a JSON number or as a quoted string, is classified success,
\* ErrNotLoggedIn, ErrNotLoggedIn, or a generic error with the code and the
\* message.
C4_Classification ==
    (/\ pc = "classified"
     /\ last.kind = "json"
     /\ last.status.form \in {"number", "string"}
     /\ last.status.text \in ClassifyNumerals) =>
        CASE last.status.text = "200" -> result = Nil
          [] last.status.text \in {"401", "408"} -> result = ErrNotLoggedIn
          [] OTHER ->
                /\ result.kind = "status"
                /\ result.code = Atoi(last.status.text)
                /\ result.msg = last.message

\* C5: when the first attempt fails with anything but ErrNotLoggedIn, nothing
\* more is sent and that error is what the call returns.
C5_OtherErrorsNotRetried ==
    (InOperation /\ sent[1].out \notin {Nil, ErrNotLoggedIn}) =>
        /\ Len(sent) = 1
        /\ pc \in {"returned", "crashed"}
        /\ result = sent[1].out

C5_Witness ==
    /\ OperationReturned
    /\ sent[1].out.kind \in {"status", "transport", "decode"}
    /\ result = sent[1].out

\* The four common parameters of params are the values of the session sess,
\* and every other parameter is the caller's.
Injected(params, sess, given) ==
    /\ DOMAIN params = (DOMAIN given) \cup CommonKeys
    /\ params["RegionCode"] = sess.Region
    /\ params["VIN"] = sess.VIN
    /\ params["custom_sessionid"] = sess.customSessionID
    /\ params["tz"] = sess.tz
    /\ \A k \in (DOMAIN given) \ CommonKeys : params[k] = given[k]

C7_IdentityAllOrNone ==
    /\ pc # "crashed" => ((s.VIN = "") <=> (s.customSessionID = ""))
    /\ \A i \in 1..Len(sent) :
          sent[i].ep \in DomainEndpoints =>
             ((sent[i].params["VIN"] = "") <=> (sent[i].params["custom_sessionid"] = ""))

\* C8 as stated: with a session file that holds both identifiers, Connect
\* adopts them, returns nil and sends no login request.
C8_ValidFileAlwaysAdopted ==
    [][(pc = "new" /\ s.Filename # "" /\ ValidRecord(file)) =>
          /\ pc' = "returned"
          /\ result' = Nil
          /\ s'.VIN = file.vin
          /\ s'.customSessionID = file.sid
          /\ Logins' = {}]_vars

\* C8 amended: with a session file that holds both identifiers, Connect sends
\* no login request, and it adopts the identifiers and returns nil, unless
\* in part_003 the InitialApp call or the encryption made before the load
\* fails: then it returns that error and adopts nothing.
C8_ValidFileSkipsLogin ==
    [][(pc = "new" /\ s.Filename # "" /\ ValidRecord(file)) =>
          /\ Logins' = {}
          /\ pc' # "connect_login"
          /\ \/ /\ pc' = "returned"
                /\ result' = Nil
                /\ s'.VIN = file.vin
                /\ s'.customSessionID = file.sid
             \/ /\ rev = "part_003"
                /\ pc' \in {"failed", "crashed"}
                /\ sent'[1].out # Nil \/ result' = KeySizeError
                /\ result' # Nil
                /\ s' = s]_vars

C8_Witness ==
    /\ ConnectReturned
    /\ pc = "returned"
    /\ result = Nil
    /\ ValidRecord(file)
    /\ s.VIN = file.vin
    /\ s.customSessionID = file.sid
    /\ Logins = {}
    /\ Bootstraps # {}

\* C9: with a session file whose record has a token but no VIN, Connect does
\* not return with that record adopted: it goes on to the login (or fails in
\* the bootstrap call before it).
C9_PartialRecordRejected ==
    [][(pc = "new" /\ s.Filename # "" /\ file.kind = "rec" /\ file.sid # "" /\ file.vin = "") =>
          /\ pc' \in {"connect_login", "failed"}
          /\ s'.customSessionID = ""]_vars

\* C10: when Connect returns nil without having adopted a decodable record of
\* the session file, it has sent the bootstrap request and then the login
\* request, and both succeeded.
C10_BootstrapThenLogin ==
    (/\ ConnectReturned
     /\ pc = "returned"
     /\ result = Nil
     /\ ~(s.Filename # "" /\ file.kind = "rec" /\ Logins = {})) =>
        /\ Len(sent) = 2
        /\ Bootstraps = {1}
        /\ Logins = {2}
        /\ sent[1].out = Nil
        /\ sent[2].out = Nil

\* A login whose response was accepted and whose write of the session
\* file then failed.
SaveFailed(e) == e.ep = "UserLoginRequest.php" /\ e.save \in SaveOutcomes \ {"ok"}

\* C11: when a login succeeds and the write of the session file fails, the
\* call that made the login goes on as after a success (Connect returns nil,
\* a re-login goes on to the retry) and the session holds the VIN and the
\* token of that login.
C11_SaveFailureNotFatal ==
    (sent # <<>> /\ SaveFailed(Last(sent))) =>
        /\ pc = IF InOperation THEN "retry" ELSE "returned"
        /\ result = IF InOperation THEN NoResult ELSE Nil
        /\ s.VIN = Last(sent).vin
        /\ s.customSessionID = Last(sent).sid

\* What each known shape of the login payload b yields, in the order top-level
\* list, nested list, customer-info record, top-level record; a list yields
\* its first record.
Yields(b) ==
    <<IF b.VehicleInfos = <<>> THEN VI("", "") ELSE b.VehicleInfos[1],
      IF b.VehicleInfoList = <<>> THEN VI("", "") ELSE b.VehicleInfoList[1],
      b.CustomerInfoVI,
      b.VehicleInfo>>

LoginAnswered == pc = "logged" /\ Classify(rev, last) = Nil

\* C12: Login adopts the vehicle info of the first shape, in the fixed order,
\* that yields a non-empty VIN.
C12_FirstShapeWithVIN ==
    (LoginAnswered /\ \E i \in 1..4 : Yields(loginResp)[i].vin # "") =>
        LET i == CHOOSE j \in 1..4 :
                    /\ Yields(loginResp)[j].vin # ""
                    /\ \A k \in 1..(j - 1) : Yields(loginResp)[k].vin = "" IN
        /\ result = Nil
        /\ s.VIN = Yields(loginResp)[i].vin

\* C13: a status-200 login response with an empty VIN in every known shape
\* makes Login return ErrVehicleInfoUnavailable, leaving the session without
\* an identity.
C13_NoVehicleInfoIsAnError ==
    (LoginAnswered /\ \A i \in 1..4 : Yields(loginResp)[i].vin = "") =>
        /\ result = ErrVehicleInfoUnavailable
        /\ s.VIN = ""

\* C14: once Connect has returned, no field of the Session and no field of
\* the session file holds the plaintext password.
C14_NoPlaintextPassword ==
    (pc \notin {"new", "connect_login"}) =>
        /\ \A f \in (DOMAIN s) \ {"encpw"} : s[f] # PlainPassword
        /\ s.encpw.alg \in {"none", "blowfish-ecb"}
        /\ \A f \in DOMAIN file : file[f] # PlainPassword

\* Seconds since start := time.Now() of the poll loop.
Since == w.now - w.start

Polled == w.polls > 0

\* C15: a poll that reports complete ends the loop with success; it is the
\* only poll that did not report "not complete, no error", so the loop made
\* exactly k calls, the first of them after the initial delay.  Until then
\* the loop neither gives up before its time limit has passed nor stops
\* polling.
C15_CompleteEndsTheLoop ==
    /\ (Polled /\ w.poll.done) =>
          /\ w.pc = "returned"
          /\ w.err = Nil
          /\ w.polls = w.notyet + 1
          /\ w.pollAt >= Delay(rev)
    /\ (w.pc = "returned" /\ w.err = TimedOut) => Since > Limit(rev, w.timeout)
    /\ (Polled /\ ~w.poll.done /\ w.poll.err = Nil /\ w.retAt - w.start <= Limit(rev, w.timeout)) =>
          w.pc \in {"sleep", "poll"}

\* Not complete twice, then complete on the third call.
C15_Witness ==
    /\ w.pc = "returned"
    /\ w.poll.done
    /\ w.err = Nil
    /\ w.polls = 3
    /\ w.notyet = 2

\* C16: with a poll that always reports "not complete, no error", the loop
\* returns the timed-out error only after the configured timeout has passed
\* since the end of the initial delay, at most one interval and one poll
\* later, and it does not go on sleeping once that timeout has passed.
C16_TimesOutAtConfiguredTimeout ==
    /\ (w.pc = "returned" /\ w.err = TimedOut /\ w.notyet = w.polls) =>
          /\ Since > w.timeout
          /\ Since <= w.timeout + Interval + MaxJitter + MaxPollTime
    /\ (w.pc = "sleep") => Since <= w.timeout

\* C17: the first poll call is made no earlier than the initial delay after
\* the call of the loop, and every later one no earlier than one interval
\* after the previous poll returned.
C17_DelaysBeforePolls ==
    [][(w'.polls = w.polls + 1) =>
          IF w.polls = 0 THEN w.now >= Delay(rev) ELSE w.now - w.retAt >= Interval]_vars

C17_Witness ==
    /\ w.polls = 2
    /\ w.pollAt - w.start >= Interval
    /\ w.start >= Delay(rev)

\* C18: a poll response with operationResult ELECTRIC_WAVE_ABNORMAL ends the
\* loop with ErrUpdateFailed.
C18_AbnormalIsUpdateFailed ==
    (Polled /\ w.poll.abnormal) =>
        /\ w.pc = "returned"
        /\ w.err = ErrUpdateFailed

\* C19: a poll that returns not-complete together with an error ends the
\* loop: no further poll call is made and the loop returns an error.
C19_PollErrorEndsTheLoop ==
    (Polled /\ ~w.poll.done /\ w.poll.err # Nil) =>
        /\ w.pc = "returned"
        /\ w.err \notin {Nil, NoResult}

C19_Witness ==
    /\ w.pc = "returned"
    /\ w.polls = 2
    /\ w.poll.err = TransportError
    /\ w.err = TransportError

\* C20: once the cancellation signal is raised, the next step of the loop is
\* its return: it starts no further sleep and no further poll.
C20_CancelStopsTheLoop ==
    [][(w.cancel /\ w.pc \in {"called", "poll", "sleep"}) => w'.pc = "returned"]_vars

\* The requests of the re-login: everything between the first attempt and
\* the retry (or the end of the log).
ReloginEntries == {i \in 2..Len(sent) : sent[i].ep # cur.ep}

\* C29: the original call is retried only when every request of the re-login
\* succeeded and Login returned nil; when the re-login fails the call ends
\* without a retry and returns an error, the error of the failed request when
\* a request failed.
C29_RetryOnlyAfterRelogin ==
    /\ (InOperation /\ (pc = "retry" \/ Cardinality(Attempts) >= 2)) =>
          \A i \in ReloginEntries :
             /\ sent[i].out = Nil
             /\ (rev = "part_003" => sent[i].vin # "" /\ sent[i].save \in {"none", "ok"})
    /\ (OperationReturned /\ ReloginEntries # {} /\ Cardinality(Attempts) = 1) =>
          /\ result \notin {Nil, NoResult}
          /\ (Last(sent).out # Nil => result = Last(sent).out)

C29_Witness ==
    /\ OperationReturned
    /\ Len(sent) = 2
    /\ Cardinality(Attempts) = 1
    /\ sent[2].ep = "UserLoginRequest.php"
    /\ sent[2].out.kind = "status"
    /\ result = sent[2].out

\* C30: one invocation of Session.apiRequest sends at most two requests to
\* the target endpoint, at most one bootstrap request and at most one login
\* request.
C30_AtMostTwoAttemptsOneLogin ==
    InOperation =>
        /\ Cardinality(Attempts) <= 2
        /\ Cardinality(Logins) <= 1
        /\ Cardinality(Bootstraps) <= 1
        /\ Len(sent) = Cardinality(Attempts) + Cardinality(Logins) + Cardinality(Bootstraps)

\* Every request of the call answered authentication-expired where it can be:
\* the first attempt, then a login that succeeds, then the retry.
C30_Witness ==
    /\ OperationReturned
    /\ Cardinality(Attempts) = 2
    /\ Cardinality(Logins) = 1
    /\ Last(sent).out = ErrNotLoggedIn
    /\ result = ErrNotLoggedIn

\* A call of the function fn has returned (SpecFn).
Returned(fn) == arg.fn = fn /\ ret # NoRet

\* C25: for every plaintext length n, encryption pads so that the ciphertext
\* length is a multiple of the 8-byte block size; between 1 and 8 padding
\* bytes are always appended (a full block when n is a multiple of 8), and
\* each padding byte holds the number of padding bytes.
C25_PaddingAlwaysAppended ==
    Returned("encrypt") =>
        LET n == Len(arg.src)
            padLen == Len(ret.src) - n IN
        /\ ret.dstLen % 8 = 0
        /\ padLen \in 1..8
        /\ SubSeq(ret.src, 1, n) = arg.src
        /\ \A i \in (n + 1)..Len(ret.src) : ret.src[i] = padLen

\* The inverse of Quote: the text between the quotes, its escapes undone.
RECURSIVE Unescape(_)
Unescape(v) ==
    IF v = <<>> THEN <<>>
    ELSE IF Head(v) = "\\" /\ Len(v) >= 2 THEN <<v[2]>> \o Unescape(Tail(Tail(v)))
    ELSE <<Head(v)>> \o Unescape(Tail(v))

Unquote(q) == Unescape(SubSeq(q, 2, Len(q) - 1))

\* The layouts, by their place in the order, that the raw text data has.
Matching(data) == {i \in 1..Len(Layouts) : Parse(Layouts[i], data).ok}

\* C26: timestamp decoding returns the parse of the first of the five
\* layouts, in their fixed order, that the raw text has; it fails only when
\* the text has none of them, with an error that holds the raw text; an empty
\* JSON string decodes to the zero value without an error.
C26_FirstMatchingLayout ==
    Returned("UnmarshalJSON") =>
        IF arg.data = <<"\"", "\"">>
        THEN ret.err = Nil /\ ret.cwt = ZeroTime
        ELSE IF Matching(arg.data) # {}
        THEN /\ ret.err = Nil
             /\ \E i \in Matching(arg.data) :
                   /\ \A k \in Matching(arg.data) : i <= k
                   /\ ret.cwt = Parse(Layouts[i], arg.data).t
        ELSE /\ ret.err # Nil
             /\ Unquote(ret.err.quoted) = arg.data
             /\ ret.cwt = ZeroTime

\* A timestamp that only a later layout than the first has was decoded.
C26_Witness ==
    /\ Returned("UnmarshalJSON")
    /\ ret.err = Nil
    /\ Matching(arg.data) # {}
    /\ 1 \notin Matching(arg.data)
    /\ ret.cwt.year = 2016
    /\ ret.cwt.hour = 23

\* The errors that say that the data is not available.
DataUnavailable == {ErrBatteryStatusUnavailable, ErrClimateStatusUnavailable, ClimateNotAvailable}

\* C21: a status-200 response whose records member is an empty list makes
\* BatteryStatus and ClimateControlStatus return the data-unavailable error,
\* which is neither a backend error nor a decode failure.
C21_EmptyListIsDataUnavailable ==
    (/\ arg.fn \in {"BatteryStatus", "ClimateControlStatus"}
     /\ ret # NoRet
     /\ arg.apiErr = Nil
     /\ arg.payload.json = "array")
    => ret.err \in DataUnavailable

\* A returned BatteryStatus call on a payload whose numbers are JSON strings
\* that hold numerals, with a state of charge that is not zero.
C28_WellFormed ==
    /\ Returned("BatteryStatus")
    /\ arg.apiErr = Nil
    /\ arg.payload.json = "object"
    /\ \A m \in {arg.payload.BatteryCapacity, arg.payload.BatteryRemainingAmount,
                 arg.payload.SOC} :
          m.form = "string" /\ m.text # <<>> /\ \A k \in 1..Len(m.text) : m.text[k] \in Digits
    /\ Decimal(arg.payload.SOC.text, 1, Len(arg.payload.SOC.text)) # 0

\* C28: for a status-200 battery-status response with string-encoded capacity
\* C, remaining amount R, a non-zero state of charge V and plug-in state P,
\* BatteryStatus returns Capacity = C, Remaining = R, StateOfCharge = V and
\* PluginState = P without an error.
C28_BatteryStatusFields ==
    C28_WellFormed =>
        /\ ret.err = Nil
        /\ ret.bs.Capacity =
              Decimal(arg.payload.BatteryCapacity.text, 1, Len(arg.payload.BatteryCapacity.text))
        /\ ret.bs.Remaining =
              Decimal(arg.payload.BatteryRemainingAmount.text, 1,
                      Len(arg.payload.BatteryRemainingAmount.text))
        /\ ret.bs.StateOfCharge = Decimal(arg.payload.SOC.text, 1, Len(arg.payload.SOC.text))
        /\ ret.bs.PluginState = arg.payload.PluginState

\* The example of the specification: 240, 220, 92, connected.
C28_Witness ==
    /\ C28_WellFormed
    /\ ret.bs = [Capacity |-> 240, Remaining |-> 220, StateOfCharge |-> 92,
                 PluginState |-> "CONNECTED"]

\* C27: saving a session and loading the file into a fresh Session restores
\* the vehicle id, the session token and the timezone name that were saved,
\* and the saved record carries the region and the unit preference, whatever
\* the file held before.
C27_SaveLoadRoundTrip ==
    (Returned("Save") /\ ret.step = "loaded") =>
        /\ ret.err = Nil
        /\ ret.s.VIN = arg.sess.VIN
        /\ ret.s.customSessionID = arg.sess.customSessionID
        /\ ret.s.tz = arg.sess.tz
        /\ "RegionCode" \in DOMAIN ret.file
        /\ ret.file.RegionCode = arg.sess.Region
        /\ "SiUnits" \in DOMAIN ret.file
        /\ ret.file.SiUnits = arg.sess.SiUnits

\* The threads of the server that are inside a Session operation (a request
\* by its number, the update loop as 0), and those of them that are logging
\* in again.
InFlight ==
    {r \in Requests : srv.req[r].op \in {"running", "relogin", "retry"}}
    \cup (IF srv.loop.pc \in {"running", "relogin", "retry"} THEN {0} ELSE {})

LoggingIn ==
    {r \in Requests : srv.req[r].op = "relogin"}
    \cup (IF srv.loop.pc = "relogin" THEN {0} ELSE {})

\* C22: in server mode the update loop and the request handlers never run
\* operations on the shared Session at the same time, so that no two calls
\* in flight both log in again.
C22_SessionSerialized ==
    srv.mode = "server" =>
        /\ Cardinality(InFlight) <= 1
        /\ Cardinality(LoggingIn) <= 1

\* The write requests that have arrived.
Writes == {r \in Requests : srv.mode = "server" /\ srv.req[r].kind = "write"}

\* C23: a write endpoint answers a request exactly once within the bounded
\* wait: with 500 and the error text when the operation failed within the
\* bound, with 202 when the bound passed first, with a success otherwise.
C23_AnswersOnceWithinBound ==
    \A r \in Writes :
        LET q == srv.req[r] IN
        /\ q.answers <= 1
        /\ q.pc = "waiting" => q.answers = 0 /\ srv.now - q.at <= serverTimeout
        /\ q.pc = "answered" =>
              /\ q.answers = 1
              /\ q.answeredAt - q.at <= serverTimeout
              /\ q.code \in {200, 202, 500}
              /\ q.code = 500 =>
                    /\ q.op = "done" /\ q.err # Nil /\ q.body = q.err
                    /\ q.doneAt <= q.answeredAt
              /\ q.code = 200 => q.op = "done" /\ q.err = Nil /\ q.doneAt <= q.answeredAt
              /\ q.code = 202 =>
                    /\ q.answeredAt - q.at = serverTimeout
                    /\ ~(q.op = "done" /\ q.doneAt - q.at < serverTimeout)

\* One request was answered with 500 and the other with 202.
C23_Witness ==
    /\ Writes = Requests
    /\ \E a, b \in Requests :
          /\ srv.req[a].pc = "answered" /\ srv.req[a].code = 500
          /\ srv.req[b].pc = "answered" /\ srv.req[b].code = 202

\* C24: every failure of a Session operation the server started is visible
\* as a printed message or as a 5xx response; none is dropped, also not one
\* that fails after its handler has stopped waiting.
C24_NoFailureDropped ==
    srv.mode = "server" =>
        /\ srv.loop.printed = srv.loop.failed
        /\ \A r \in Requests :
              (/\ srv.req[r].op = "done"
               /\ srv.req[r].err # Nil
               /\ srv.req[r].pc = "answered")
              => srv.req[r].code >= 500

\* C31: the package-level apiRequest ends with one of its three outcomes
\* (success, ErrNotLoggedIn, a generic status error) for every body that
\* decodes as a JSON object, also one with no status member, a null status or
\* an empty-string status; it never crashes while classifying.
C31_ClassifiesEveryObject ==
    (pc = "classified" /\ last.kind = "json") =>
        \/ result = Nil
        \/ result = ErrNotLoggedIn
        \/ result = StatusError(Status(last.status), last.message)

\* C32: the poll loop returns success exactly when its last poll reported
\* done: never after a poll that reported not-done, and always after one that
\* reported done, whatever error came with it and however much time has
\* passed.
C32_SuccessIffDone ==
    /\ w.pc = "returned" => ((w.err = Nil) <=> w.poll.done)
    /\ (w.pc \in {"sleep", "returned"} /\ w.poll.done) => (w.pc = "returned" /\ w.err = Nil)
    /\ w.pc = "sleep" => ~w.poll.done

\* A poll that reported done together with an error, after the time was out.
C32_Witness ==
    /\ w.pc = "returned"
    /\ w.poll.done
    /\ w.poll.err = ErrUpdateFailed
    /\ w.retAt - w.start > Limit(rev, w.timeout)
    /\ w.err = Nil

\* C33: when a poll returns not-done together with an error, the loop returns
\* that same error; it is never replaced by another one such as the timeout
\* error.
C33_PollErrorKept ==
    (w.pc = "returned" /\ ~w.poll.done /\ w.poll.err # Nil) => w.err = w.poll.err

\* A step in which Login made its exchange and handed an error to its caller.
LoginFailedStep ==
    /\ Len(sent') = Len(sent) + 1
    /\ Last(sent').ep = "UserLoginRequest.php"
    /\ result' \notin {Nil, NoResult}

\* C34: when Login returns an error, whatever the reason (transport, a status
\* other than 200, no vehicle info, a failed write of the session file), the
\* vehicle id, the token, the time-zone name and the zone of the Session are
\* what they were before the call.
C34_FailedLoginKeepsIdentity ==
    [][LoginFailedStep =>
        /\ s'.VIN = s.VIN
        /\ s'.customSessionID = s.customSessionID
        /\ s'.tz = s.tz
        /\ s'.loc = s.loc]_vars

\* C36: in every write handler the goroutine that runs the operation ends
\* once the operation has returned: its one send on the result channel goes
\* through, also when the handler has already answered 202 and will never
\* receive; no such goroutine stays blocked.
C36_WorkerNeverBlocked ==
    \A r \in Requests :
        (srv.req[r].kind = "write" /\ srv.req[r].err # NoResult) =>
            /\ srv.req[r].op = "done"
            /\ srv.req[r].pc = "answered" /\ srv.req[r].code = 202 =>
                    srv.req[r].ch = srv.req[r].err

\* An operation that returned after its handler had answered 202.
C36_Witness ==
    \E r \in Requests :
        /\ srv.req[r].kind = "write"
        /\ srv.req[r].code = 202
        /\ srv.req[r].op = "done"
        /\ srv.req[r].doneAt > srv.req[r].answeredAt

\* C38: when the configuration supplies a time zone, every request that
\* carries the common parameters of an identity carries that time-zone name,
\* whether the identity was loaded from a saved session or obtained by a
\* login.
C38_ConfiguredZoneSent ==
    s.TimeZone # "" =>
        \A i \in 1..Len(sent) :
            (sent[i].ep \in DomainEndpoints /\ sent[i].params["VIN"] # "") =>
                sent[i].params["tz"] = s.TimeZone

\* C39: when the backend reports the state of charge 0, BatteryStatus returns
\* as StateOfCharge the percentage Remaining * 100 / Capacity rounded to the
\* nearest integer, a number from 0 to 100, for every reported capacity and
\* remaining amount.
C39_ComputedStateOfCharge ==
    (/\ Returned("BatteryStatus")
     /\ ret.err = Nil
     /\ arg.payload.json = "object"
     /\ arg.payload.SOC.text = <<"0">>) =>
        /\ ret.bs.StateOfCharge \in 0..100
        /\ 2 * (ret.bs.Remaining * 100 - ret.bs.StateOfCharge * ret.bs.Capacity)
              <= ret.bs.Capacity
        /\ 2 * (ret.bs.StateOfCharge * ret.bs.Capacity - ret.bs.Remaining * 100)
              < ret.bs.Capacity

\* The identities a request can carry whole.
Identities == {LoadedIdentity} \cup {IssuedIdentity(g) : g \in Goroutines}

\* C35: in server mode every request sent to the backend carries a vehicle
\* id, a session token and a time zone that all come from one login or from
\* the one loaded record, also while the re-login of one goroutine overlaps
\* the building of a request by another.
C35_RequestsCarryOneIdentity ==
    \A i \in 1..Len(sent) :
        sent[i].ep \in DomainEndpoints =>
            \E id \in Identities :
                /\ sent[i].params["VIN"] = id.vin
                /\ sent[i].params["custom_sessionid"] = id.sid
                /\ sent[i].params["tz"] = id.tz

\* C37: the update loop asks for an update once when it starts and once for
\* every tick it receives; once its context is cancelled it starts no further
\* update; no loop is started when the interval is not positive.
C37_UpdateLoop ==
    /\ srv.interval <= 0 => (srv.pc \in {"none", "not started"} /\ srv.runs = 0)
    /\ srv.pc \notin {"none", "not started"} => srv.runs = 1 + srv.ticks
    /\ srv.late = 0

====
